---- MODULE Spec2Model ----
(***************************************************************************)
(* Model of backend/services/ai/analysis_service.py: the DDL extractor     *)
(* (parse_sql), the response normalizer (_parse_ai_response) and the       *)
(* orchestrator (analyze_code, analyze_code_with_llm).                     *)
(*                                                                         *)
(* A Python str is a sequence of lexemes.  A lexeme is one whitespace      *)
(* character, one punctuation character, a fence (three backticks) or one  *)
(* maximal run of \w characters (a word).  The regular expressions of the   *)
(* source only tell characters apart by these classes, so each is          *)
(* translated to a matcher over lexemes.                                   *)
(***************************************************************************)
EXTENDS Integers, Sequences, FiniteSets, TLC

\* parse_sql called on its own: the position of the call, the input as it was
\* put together (sqlCase), the argument sql_code (sqlIn) and the value returned.
VARIABLES sqlPc, sqlCase, sqlIn, sqlOut

\* _parse_ai_response called on its own: the position of the call, the
\* argument response, the value returned, and the value returned for the
\* serialization of that value.
VARIABLES normPc, normIn, normOut, normAgain

\* parse_sql_manually called on its own: the position of the call, the input
\* as it was put together, the argument sql_code and the value returned.
VARIABLES manPc, manCase, manIn, manOut

sqlVars == <<sqlPc, sqlCase, sqlIn, sqlOut>>

manVars == <<manPc, manCase, manIn, manOut>>

normVars == <<normPc, normIn, normOut, normAgain>>

\* The service and its requests: the OpenAI client it was constructed with
\* (ai), whether GOOGLE_API_KEY is set, the rows of the tables analyses and
\* query_executions, and the frame of every call of the orchestrator.
VARIABLES ai, google_api_key, analyses, executions, req

svcVars == <<ai, google_api_key, analyses, executions, req>>

\* The review workflow: the last call of submit_for_review or submit_review
\* with the number of calls so far, and the history of the table analyses,
\* one entry for each commit that changed a row, in the order of the commits.
VARIABLES review, trail

revVars == <<review, trail>>

vars == <<sqlVars, normVars, manVars, svcVars, revVars>>

----------------------------------------------------------------------------
(* Lexemes and the str methods the source uses.                            *)

WS == {" ", "\n"}

\* The backtick character and the markdown fence of three backticks.
Backtick == "<backtick>"
Fence == "<fence>"

\* The escapes of a JSON string, each one lexeme: \" for a quote, \n for a
\* line break and \u0060\u0060\u0060 for three backticks.
EscQuote == "\\\""
EscNewline == "\\n"
EscFence == "\\u0060\\u0060\\u0060"

Punct == {"(", ")", ",", ";", "'", "\"", "-", "{", "}", "[", "]", ":",
          "#", ".", "=", ">", "*", "/", Backtick, Fence,
          EscQuote, EscNewline, EscFence}

IsWord(c) == c \notin WS /\ c \notin Punct

\* re.IGNORECASE, on the lower-case spellings of the keywords of the patterns.
Upper(c) ==
  CASE c = "create" -> "CREATE"
    [] c = "table" -> "TABLE"
    [] c = "alter" -> "ALTER"
    [] c = "select" -> "SELECT"
    [] c = "from" -> "FROM"
    [] c = "if" -> "IF"
    [] c = "not" -> "NOT"
    [] c = "exists" -> "EXISTS"
    [] c = "foreign" -> "FOREIGN"
    [] c = "key" -> "KEY"
    [] c = "references" -> "REFERENCES"
    [] c = "primary" -> "PRIMARY"
    [] c = "unique" -> "UNIQUE"
    [] c = "null" -> "NULL"
    [] c = "default" -> "DEFAULT"
    [] c = "check" -> "CHECK"
    [] c = "comment" -> "COMMENT"
    [] c = "auto_increment" -> "AUTO_INCREMENT"
    [] c \in {"class", "Class"} -> "CLASS"
    [] c = "Table" -> "TABLE"
    [] c \in {"relationship", "Relationship"} -> "RELATIONSHIP"
    [] c = "foreign_key" -> "FOREIGN_KEY"
    [] c = "References" -> "REFERENCES"
    [] c \in {"summary", "Summary"} -> "SUMMARY"
    [] c \in {"documentation", "Documentation"} -> "DOCUMENTATION"
    [] c = "self" -> "SELF"
    [] OTHER -> c

\* str.lower(), on the words of the texts that are not in lower case.
Lower(c) ==
  CASE c \in {"SQL", "Sql"} -> "sql"
    [] c \in {"Python", "PYTHON"} -> "python"
    [] c \in {"True", "TRUE"} -> "true"
    [] c \in {"False", "FALSE"} -> "false"
    [] OTHER -> c

At(s, i) == IF i >= 1 /\ i <= Len(s) THEN s[i] ELSE ""

IsKw(s, i, kw) == i >= 1 /\ i <= Len(s) /\ Upper(s[i]) = kw

\* The position after the longest run of characters of `set` that starts at i.
SkipSet(s, i, set) ==
  CHOOSE j \in i..(Len(s) + 1) :
    /\ \A k \in i..(j - 1) : s[k] \in set
    /\ (j = Len(s) + 1 \/ s[j] \notin set)

SkipWs(s, i) == SkipSet(s, i, WS)

\* The first position >= i that holds c, or 0.
IndexFrom(s, i, c) ==
  IF \E j \in i..Len(s) : s[j] = c
  THEN CHOOSE j \in i..Len(s) : s[j] = c /\ \A k \in i..(j - 1) : s[k] # c
  ELSE 0

\* str.strip(chars)
StripChars(s, set) ==
  LET a == SkipSet(s, 1, set)
      b == IF a > Len(s) THEN a - 1
           ELSE CHOOSE j \in a..Len(s) :
                  s[j] \notin set /\ \A k \in (j + 1)..Len(s) : s[k] \in set
  IN SubSeq(s, a, b)

\* str.strip()
Strip(s) == StripChars(s, WS)

RECURSIVE SplitOn(_, _)
\* str.split(sep) for a one-character separator
SplitOn(s, sep) ==
  LET j == IndexFrom(s, 1, sep)
  IN IF j = 0 THEN <<s>>
     ELSE <<SubSeq(s, 1, j - 1)>> \o SplitOn(SubSeq(s, j + 1, Len(s)), sep)

RECURSIVE Concat(_)
Concat(ss) == IF ss = <<>> THEN <<>> ELSE Head(ss) \o Concat(Tail(ss))

RECURSIVE Join(_, _)
\* sep.join(ss)
Join(ss, sep) ==
  IF ss = <<>> THEN <<>>
  ELSE IF Len(ss) = 1 THEN ss[1]
  ELSE ss[1] \o sep \o Join(Tail(ss), sep)

\* Python's None where a str is expected: no str of the model is this one.
None == <<"<None>">>

NameQuotes == {Backtick, "\""}

\* [BACKTICK"]?\w+[BACKTICK"]? at i: the position after it, or 0.
QuotedWordEnd(s, i) ==
  LET a == IF At(s, i) \in NameQuotes THEN i + 1 ELSE i
      b == a + 1
  IN IF a <= Len(s) /\ IsWord(s[a])
     THEN (IF At(s, b) \in NameQuotes THEN b + 1 ELSE b)
     ELSE 0

----------------------------------------------------------------------------
(* parse_sql: the statement pattern.                                       *)

NoMatch == [ok |-> FALSE, name |-> None, body |-> <<>>, start |-> 0, end |-> 0]

\* (?:IF\s+NOT\s+EXISTS\s+) at i: the position after it, or 0.
IfNotExistsEnd(s, i) ==
  LET a == SkipWs(s, i + 1)
      b == SkipWs(s, a + 1)
      c == SkipWs(s, b + 1)
  IN IF /\ IsKw(s, i, "IF") /\ a > i + 1
        /\ IsKw(s, a, "NOT") /\ b > a + 1
        /\ IsKw(s, b, "EXISTS") /\ c > b + 1
     THEN c ELSE 0

\* A faulty variant of CreateTableBody: the body is taken up to the last
\* closing parenthesis of the text, as a greedy ([\s\S]*) takes it.
CreateTableBodyGreedy(s, i, p, name) ==
  LET open == SkipWs(s, p)
      closes == {j \in (open + 1)..Len(s) : s[j] = ")"}
      close == IF closes = {} THEN 0
               ELSE CHOOSE j \in closes : \A k \in closes : k <= j
      semi == SkipWs(s, close + 1)
  IN IF At(s, open) = "(" /\ close # 0
     THEN [ok |-> TRUE, name |-> name,
           body |-> SubSeq(s, open + 1, close - 1),
           start |-> i,
           end |-> IF At(s, semi) = ";" THEN semi + 1 ELSE close + 1]
     ELSE NoMatch

\* \s*\(([\s\S]*?)\)(?:\s*;)? at p, after a name that is `name`.
CreateTableBody(s, i, p, name) ==
  LET open == SkipWs(s, p)
      close == IndexFrom(s, open + 1, ")")
      semi == SkipWs(s, close + 1)
  IN IF At(s, open) = "(" /\ close # 0
     THEN [ok |-> TRUE, name |-> name,
           body |-> SubSeq(s, open + 1, close - 1),
           start |-> i,
           end |-> IF At(s, semi) = ";" THEN semi + 1 ELSE close + 1]
     ELSE NoMatch

\* (name)?\s*\(...  at p: with the name first, then without it.
CreateTableTail(s, i, p) ==
  LET e == QuotedWordEnd(s, p)
      named == IF e # 0
               THEN CreateTableBody(s, i, e, SubSeq(s, p, e - 1))
               ELSE NoMatch
  IN IF named.ok THEN named ELSE CreateTableBody(s, i, p, None)

\* create_table_pattern matched at position i.
CreateTableAt(s, i) ==
  LET a == SkipWs(s, i + 1)
      b == SkipWs(s, a + 1)
      ine == IfNotExistsEnd(s, b)
      withIf == IF ine # 0 THEN CreateTableTail(s, i, ine) ELSE NoMatch
  IN IF IsKw(s, i, "CREATE") /\ a > i + 1 /\ IsKw(s, a, "TABLE") /\ b > a + 1
     THEN (IF withIf.ok THEN withIf ELSE CreateTableTail(s, i, b))
     ELSE NoMatch

RECURSIVE FindCreateTables(_, _)
\* The match m, then the matches after its end.
MatchesFrom(s, m) == <<m>> \o FindCreateTables(s, m.end)

\* The matches from the leftmost of the positions `found` on.
LeftmostCreateTable(s, found) ==
  IF found = {} THEN <<>>
  ELSE MatchesFrom(s, CreateTableAt(s, CHOOSE j \in found :
                                         \A k \in found : j <= k))

\* re.finditer(create_table_pattern, sql_code, re.IGNORECASE) from position i:
\* the leftmost match at or after i, then the matches after its end.
FindCreateTables(s, i) ==
  LeftmostCreateTable(s, {j \in i..Len(s) : CreateTableAt(s, j).ok})

----------------------------------------------------------------------------
(* parse_sql: the splitter.                                                *)

SplitInit ==
  [pos |-> 1, col_defs |-> <<>>, paren_count |-> 0, current_def |-> <<>>,
   in_string |-> FALSE, string_char |-> "", min_paren |-> 0, splits |-> {}]

\* A faulty variant of SplitChar: a string is closed by either quote
\* character.
SplitCharAnyQuote(st, char) ==
  LET nx == [st EXCEPT !.pos = @ + 1]
  IN IF char \in {"'", "\""}
     THEN [nx EXCEPT !.in_string = ~st.in_string,
                     !.string_char = IF st.in_string THEN "" ELSE char,
                     !.current_def = Append(@, char)]
     ELSE IF char = "," /\ st.paren_count = 0 /\ ~st.in_string
     THEN [nx EXCEPT !.col_defs = Append(@, Strip(st.current_def)),
                     !.current_def = <<>>,
                     !.splits = @ \cup {st.pos}]
     ELSE [nx EXCEPT !.paren_count =
                       IF st.in_string THEN @
                       ELSE IF char = "(" THEN @ + 1
                       ELSE IF char = ")" THEN @ - 1 ELSE @,
                     !.current_def = Append(@, char)]

\* One iteration of `for char in columns_text`, on the character at st.pos.
\* pos is the loop's position; min_paren and splits record what the loop did
\* (the lowest paren_count, the commas that ended a fragment).
SplitChar(st, char) ==
  LET nx == [st EXCEPT !.pos = @ + 1]
  IN IF char \in {"'", "\""} /\ ~st.in_string
     THEN [nx EXCEPT !.in_string = TRUE, !.string_char = char,
                     !.current_def = Append(@, char)]
     ELSE IF char = st.string_char /\ st.in_string
     THEN [nx EXCEPT !.in_string = FALSE, !.string_char = "",
                     !.current_def = Append(@, char)]
     ELSE IF ~st.in_string
     THEN (IF char = "("
           THEN [nx EXCEPT !.paren_count = @ + 1,
                           !.current_def = Append(@, char)]
           ELSE IF char = ")"
           THEN [nx EXCEPT !.paren_count = @ - 1,
                           !.min_paren = IF st.paren_count - 1 < @
                                         THEN st.paren_count - 1 ELSE @,
                           !.current_def = Append(@, char)]
           ELSE IF char = "," /\ st.paren_count = 0
           THEN [nx EXCEPT !.col_defs = Append(@, Strip(st.current_def)),
                           !.current_def = <<>>,
                           !.splits = @ \cup {st.pos}]
           ELSE [nx EXCEPT !.current_def = Append(@, char)])
     ELSE [nx EXCEPT !.current_def = Append(@, char)]

RECURSIVE SplitScan(_, _)
SplitScan(text, st) ==
  IF st.pos > Len(text) THEN st
  ELSE SplitScan(text, SplitChar(st, text[st.pos]))

\* The loop and the `if current_def:` that follows it.
SplitState(text) ==
  LET st == SplitScan(text, SplitInit)
  IN IF st.current_def # <<>>
     THEN [st EXCEPT !.col_defs = Append(@, Strip(st.current_def))]
     ELSE st

Splitter(text) == SplitState(text).col_defs

----------------------------------------------------------------------------
(* parse_sql: the classifier.                                              *)

\* re.match(r"\s*FOREIGN\s+KEY\b", col_def, re.IGNORECASE)
IsForeignKeyDef(d) ==
  LET a == SkipWs(d, 1)
      b == SkipWs(d, a + 1)
  IN IsKw(d, a, "FOREIGN") /\ b > a + 1 /\ IsKw(d, b, "KEY")

NoFk == [ok |-> FALSE, g1 |-> <<>>, g2 |-> <<>>, g3 |-> None]

\* The foreign key pattern matched at position i of d:
\* FOREIGN\s+KEY\s*\(([^)]+)\)\s*REFERENCES\s+(name)\s*(?:\(([^)]+)\))?
FkAt(d, i) ==
  LET a == SkipWs(d, i + 1)
      o1 == SkipWs(d, a + 1)
      c1 == IndexFrom(d, o1 + 1, ")")
      r == SkipWs(d, c1 + 1)
      n == SkipWs(d, r + 1)
      e == QuotedWordEnd(d, n)
      o2 == SkipWs(d, e)
      c2 == IndexFrom(d, o2 + 1, ")")
  IN IF /\ IsKw(d, i, "FOREIGN") /\ a > i + 1 /\ IsKw(d, a, "KEY")
        /\ At(d, o1) = "(" /\ c1 > o1 + 1
        /\ IsKw(d, r, "REFERENCES") /\ n > r + 1
        /\ e # 0
     THEN [ok |-> TRUE,
           g1 |-> SubSeq(d, o1 + 1, c1 - 1),
           g2 |-> SubSeq(d, n, e - 1),
           g3 |-> IF At(d, o2) = "(" /\ c2 > o2 + 1
                  THEN SubSeq(d, o2 + 1, c2 - 1) ELSE None]
     ELSE NoFk

\* re.search of the foreign key pattern: the leftmost match.
FkSearch(d) ==
  IF \E i \in 1..Len(d) : FkAt(d, i).ok
  THEN FkAt(d, CHOOSE i \in 1..Len(d) :
                 FkAt(d, i).ok /\ \A k \in 1..(i - 1) : ~FkAt(d, k).ok)
  ELSE NoFk

\* [col.strip(BACKTICK" ) for col in text.split(',')]
ColumnList(text) ==
  LET parts == SplitOn(text, ",")
  IN [k \in 1..Len(parts) |-> StripChars(parts[k], {Backtick, "\"", " "})]

\* The relationships a FOREIGN KEY fragment adds (lines 81-97).
ForeignKeyRelationships(table_name, col_def) ==
  LET fk == FkSearch(col_def)
  IN IF fk.ok
     THEN << [type |-> "foreign_key",
              from_table |-> table_name,
              from_fields |-> ColumnList(fk.g1),
              to_table |-> StripChars(fk.g2, NameQuotes),
              to_fields |-> IF fk.g3 # None THEN ColumnList(fk.g3)
                            ELSE << <<"id">> >>] >>
     ELSE <<>>

\* The position after the match of pattern kw1\s+kw2 at i, or 0.
TwoWordsAt(s, i, kw1, kw2) ==
  LET a == SkipWs(s, i + 1)
  IN IF IsKw(s, i, kw1) /\ a > i + 1 /\ IsKw(s, a, kw2) THEN a + 1 ELSE 0

\* \bDEFAULT\s+(?:[^,\s]+|\([^)]+\)) at i: the position after it, or 0.
DefaultEnd(s, i) ==
  LET a == SkipWs(s, i + 1)
      v == SkipSet(s, a, {c \in {s[k] : k \in 1..Len(s)} : c \notin WS /\ c # ","})
      c == IndexFrom(s, a + 1, ")")
  IN IF ~(IsKw(s, i, "DEFAULT") /\ a > i + 1) THEN 0
     ELSE IF v > a THEN v
     ELSE IF At(s, a) = "(" /\ c > a + 1 THEN c + 1
     ELSE 0

\* \bCHECK\s*\([^)]+\) at i: the position after it, or 0.
CheckEnd(s, i) ==
  LET o == SkipWs(s, i + 1)
      c == IndexFrom(s, o + 1, ")")
  IN IF IsKw(s, i, "CHECK") /\ At(s, o) = "(" /\ c > o + 1 THEN c + 1 ELSE 0

\* The leftmost position where End(s, i) # 0, or 0: re.search.
FirstDefault(s) ==
  IF \E i \in 1..Len(s) : DefaultEnd(s, i) # 0
  THEN CHOOSE i \in 1..Len(s) :
         DefaultEnd(s, i) # 0 /\ \A k \in 1..(i - 1) : DefaultEnd(s, k) = 0
  ELSE 0

\* constraint_match.group(0).split(None, 1)[1] of the DEFAULT match
DefaultValue(s) ==
  LET i == FirstDefault(s)
      g0 == SubSeq(s, i, DefaultEnd(s, i) - 1)
      a == SkipWs(g0, 2)
  IN SubSeq(g0, a, Len(g0))

\* The constraint tags of lines 120-138, in the order of constraint_patterns.
Constraints(rem) ==
  LET P == 1..Len(rem)
  IN   (IF \E i \in P : TwoWordsAt(rem, i, "PRIMARY", "KEY") # 0
        THEN << <<"PRIMARY", " ", "KEY">> >> ELSE <<>>)
    \o (IF \E i \in P : IsKw(rem, i, "UNIQUE")
        THEN << <<"UNIQUE">> >> ELSE <<>>)
    \o (IF \E i \in P : TwoWordsAt(rem, i, "NOT", "NULL") # 0
        THEN << <<"NOT", " ", "NULL">> >> ELSE <<>>)
    \o (IF FirstDefault(rem) # 0
        THEN << <<"DEFAULT", " ">> \o DefaultValue(rem) >> ELSE <<>>)
    \o (IF \E i \in P : CheckEnd(rem, i) # 0
        THEN << <<"CHECK">> >> ELSE <<>>)
    \o (IF \E i \in P : IsKw(rem, i, "AUTO_INCREMENT")
        THEN << <<"AUTO_INCREMENT">> >> ELSE <<>>)

\* COMMENT\s+['"]((?:[^'"\\]|\\.)*)['"] at i: the position of the closing
\* quote, or 0.  The inputs hold no backslash.
CommentClose(s, i) ==
  LET a == SkipWs(s, i + 1)
      q == SkipSet(s, a + 1, {c \in {s[k] : k \in 1..Len(s)} : c \notin {"'", "\""}})
  IN IF /\ IsKw(s, i, "COMMENT") /\ a > i + 1
        /\ At(s, a) \in {"'", "\""} /\ At(s, q) \in {"'", "\""}
     THEN q ELSE 0

\* comment_match.group(1) if comment_match else ""
Comment(rem) ==
  IF \E i \in 1..Len(rem) : CommentClose(rem, i) # 0
  THEN LET i == CHOOSE i \in 1..Len(rem) :
                  CommentClose(rem, i) # 0
                  /\ \A k \in 1..(i - 1) : CommentClose(rem, k) = 0
       IN SubSeq(rem, SkipWs(rem, i + 1) + 1, CommentClose(rem, i) - 1)
  ELSE <<>>

\* (\w+(?:\s*\([^)]*\))?) at the start of s: the position after it, or 0.
TypeEnd(s) ==
  LET o == SkipWs(s, 2)
      c == IndexFrom(s, o + 1, ")")
  IN IF ~(Len(s) >= 1 /\ IsWord(s[1])) THEN 0
     ELSE IF At(s, o) = "(" /\ c # 0 THEN c + 1
     ELSE 2

\* A faulty variant of ColumnsOf: a fragment without a type still adds a
\* column, with an empty type.
ColumnsOfUntyped(col_def) ==
  LET ne == QuotedWordEnd(col_def, 1)
      ws == SkipWs(col_def, ne)
      rem1 == Strip(SubSeq(col_def, ws, Len(col_def)))
      te == IF TypeEnd(rem1) = 0 THEN 1 ELSE TypeEnd(rem1)
      rem2 == Strip(SubSeq(rem1, te, Len(rem1)))
  IN IF ne = 0 \/ ws = ne THEN <<>>
     ELSE << [name |-> StripChars(SubSeq(col_def, 1, ne - 1), NameQuotes),
              type |-> Strip(SubSeq(rem1, 1, te - 1)),
              description |-> Comment(rem2),
              constraints |-> Constraints(rem2)] >>

\* The columns a fragment that is no FOREIGN KEY adds (lines 100-145).
ColumnsOf(col_def) ==
  LET ne == QuotedWordEnd(col_def, 1)
      ws == SkipWs(col_def, ne)
      rem1 == Strip(SubSeq(col_def, ws, Len(col_def)))
      te == TypeEnd(rem1)
      rem2 == Strip(SubSeq(rem1, te, Len(rem1)))
  IN IF ne = 0 \/ ws = ne THEN <<>>
     ELSE IF te = 0 THEN <<>>
     ELSE << [name |-> StripChars(SubSeq(col_def, 1, ne - 1), NameQuotes),
              type |-> Strip(SubSeq(rem1, 1, te - 1)),
              description |-> Comment(rem2),
              constraints |-> Constraints(rem2)] >>

RECURSIVE Classify(_, _, _, _)
\* `for col_def in col_defs` from fragment k on: the columns and relationships
\* of the table.
Classify(table_name, col_defs, k, acc) ==
  IF k > Len(col_defs) THEN acc
  ELSE LET d == col_defs[k]
       IN Classify(table_name, col_defs, k + 1,
            IF Strip(d) = <<>> THEN acc
            ELSE IF IsForeignKeyDef(d)
            THEN [acc EXCEPT !.relationships =
                               @ \o ForeignKeyRelationships(table_name, d)]
            ELSE [acc EXCEPT !.columns = @ \o ColumnsOf(d)])

\* The table of one match of create_table_pattern (lines 35-151).
TableFrom(table_name, r) ==
  [name |-> table_name, fields |-> r.columns,
   relationships |-> r.relationships]

TableNamed(table_name, columns_text) ==
  TableFrom(table_name,
            Classify(table_name, Splitter(columns_text), 1,
                     [columns |-> <<>>, relationships |-> <<>>]))

TableOf(m) ==
  TableNamed(IF m.name # None THEN StripChars(m.name, NameQuotes) ELSE None,
             m.body)

TablesOfStatements(ms) == [k \in 1..Len(ms) |-> TableOf(ms[k])]

parse_sql(sql_code) ==
  [tables |-> TablesOfStatements(FindCreateTables(sql_code, 1)),
   type |-> "sql_analysis"]

\* The col_defs of every match, in order (lines 43-71).
FragmentsOf(sql_code) ==
  LET ms == FindCreateTables(sql_code, 1)
  IN [k \in 1..Len(ms) |-> Splitter(ms[k].body)]

----------------------------------------------------------------------------
(* Python values as json.loads builds them and _parse_ai_response returns  *)
(* them: a pair of a tag and a payload.                                    *)

PyNone == <<"none", <<>> >>
PyStr(text) == <<"str", text>>
PyNum(text) == <<"num", text>>
PyBool(text) == <<"bool", text>>
PyList(items) == <<"list", items>>
\* A dict: its items, in insertion order, each a pair <<key, value>>.
PyDict(items) == <<"dict", items>>

TagOf(x) == x[1]
ValOf(x) == x[2]

HasKey(items, key) == \E n \in 1..Len(items) : items[n][1] = key

\* d[key] = value
DictSet(items, key, value) ==
  IF HasKey(items, key)
  THEN [n \in 1..Len(items) |->
          IF items[n][1] = key THEN <<key, value>> ELSE items[n]]
  ELSE Append(items, <<key, value>>)

\* d.get(key, default)
DictGet(d, key, default) ==
  IF HasKey(ValOf(d), key)
  THEN ValOf(d)[CHOOSE n \in 1..Len(ValOf(d)) : ValOf(d)[n][1] = key][2]
  ELSE default

\* The value a result holds under a key, None when it does not hold the key.
Field(result, key) == DictGet(result, key, PyNone)

----------------------------------------------------------------------------
(* json.loads on lexemes.  The words that are JSON numbers are the ones of *)
(* Digits; a string holds no backslash but the ones of its escapes, and no *)
(* control character (strict mode), so no line break.                      *)

Digits == {"0", "1", "2", "10", "255"}

JsonFail == [ok |-> FALSE, val |-> PyNone, end |-> 0]

JsonOk(val, end) == [ok |-> TRUE, val |-> val, end |-> end]

\* py_scanstring: what a lexeme of a string literal stands for.
Unescaped(c) ==
  IF c = EscQuote THEN "\""
  ELSE IF c = EscNewline THEN "\n"
  ELSE IF c = EscFence THEN Fence
  ELSE c

\* A string literal at i (s[i] is the opening quote).
JsonString(s, i) ==
  LET c == IndexFrom(s, i + 1, "\"")
  IN IF c # 0 /\ \A k \in (i + 1)..(c - 1) : s[k] # "\n"
     THEN JsonOk(PyStr([k \in 1..(c - i - 1) |-> Unescaped(s[i + k])]), c + 1)
     ELSE JsonFail

\* A number at i: -?digits(.digits)?
JsonNumber(s, i) ==
  LET a == IF At(s, i) = "-" THEN i + 1 ELSE i
      e == IF At(s, a + 1) = "." /\ At(s, a + 2) \in Digits THEN a + 3
           ELSE a + 1
  IN IF At(s, a) \in Digits THEN JsonOk(PyNum(SubSeq(s, i, e - 1)), e)
     ELSE JsonFail

RECURSIVE JsonValue(_, _), JsonItems(_, _, _), JsonMembers(_, _, _)

\* scan_once: the value that starts at i.
JsonValue(s, i) ==
  LET c == At(s, i)
      n == SkipWs(s, i + 1)
  IN IF c = "\"" THEN JsonString(s, i)
     ELSE IF c = "{"
     THEN (IF At(s, n) = "}" THEN JsonOk(PyDict(<<>>), n + 1)
           ELSE JsonMembers(s, n, <<>>))
     ELSE IF c = "["
     THEN (IF At(s, n) = "]" THEN JsonOk(PyList(<<>>), n + 1)
           ELSE JsonItems(s, n, <<>>))
     ELSE IF c = "null" THEN JsonOk(PyNone, i + 1)
     ELSE IF c \in {"true", "false"} THEN JsonOk(PyBool(<<c>>), i + 1)
     ELSE JsonNumber(s, i)

\* JSONArray: the items from position i on, after the items of acc.
JsonItems(s, i, acc) ==
  LET x == JsonValue(s, i)
      n == SkipWs(s, x.end)
  IN IF ~x.ok THEN JsonFail
     ELSE IF At(s, n) = "]" THEN JsonOk(PyList(Append(acc, x.val)), n + 1)
     ELSE IF At(s, n) = ","
     THEN JsonItems(s, SkipWs(s, n + 1), Append(acc, x.val))
     ELSE JsonFail

\* JSONObject: the members from position i on, after the members of acc.
JsonMembers(s, i, acc) ==
  LET key == JsonString(s, i)
      colon == SkipWs(s, key.end)
      x == JsonValue(s, SkipWs(s, colon + 1))
      n == SkipWs(s, x.end)
      items == DictSet(acc, ValOf(key.val), x.val)
  IN IF ~(At(s, i) = "\"" /\ key.ok /\ At(s, colon) = ":" /\ x.ok)
     THEN JsonFail
     ELSE IF At(s, n) = "}" THEN JsonOk(PyDict(items), n + 1)
     ELSE IF At(s, n) = "," THEN JsonMembers(s, SkipWs(s, n + 1), items)
     ELSE JsonFail

\* json.loads(s): ok is FALSE where it raises JSONDecodeError.
json_loads(s) ==
  LET x == JsonValue(s, SkipWs(s, 1))
  IN IF x.ok /\ SkipWs(s, x.end) = Len(s) + 1 THEN x ELSE JsonFail

----------------------------------------------------------------------------
(* json.dumps on lexemes, as the JSON columns and the responses of the API *)
(* serialize a result: a quote and a line break of a string are escaped,   *)
(* a backtick is not.                                                      *)

Escaped(c) ==
  IF c = "\"" THEN EscQuote ELSE IF c = "\n" THEN EscNewline ELSE c

JsonQuoted(text) ==
  <<"\"">> \o [k \in 1..Len(text) |-> Escaped(text[k])] \o <<"\"">>

RECURSIVE json_dumps(_)

JsonDumpsItem(item) ==
  JsonQuoted(item[1]) \o <<":", " ">> \o json_dumps(item[2])

json_dumps(x) ==
  IF TagOf(x) = "none" THEN <<"null">>
  ELSE IF TagOf(x) \in {"num", "bool"} THEN ValOf(x)
  ELSE IF TagOf(x) = "str" THEN JsonQuoted(ValOf(x))
  ELSE IF TagOf(x) = "list"
  THEN <<"[">>
       \o Join([n \in 1..Len(ValOf(x)) |-> json_dumps(ValOf(x)[n])],
               <<",", " ">>)
       \o <<"]">>
  ELSE <<"{">>
       \o Join([n \in 1..Len(ValOf(x)) |-> JsonDumpsItem(ValOf(x)[n])],
               <<",", " ">>)
       \o <<"}">>

----------------------------------------------------------------------------
(* The regular expressions of _parse_ai_response and of the SQL keyword    *)
(* test, as re matches them: a pattern is a tree of nodes, matched by      *)
(* backtracking in the order of preference of re (a greedy repetition      *)
(* tries the longest run first, a lazy one the shortest, an alternation    *)
(* its branches from left to right).                                       *)

\* One character of a class.
InSet(S) == [op |-> "in", set |-> S]
NotIn(S) == [op |-> "notin", set |-> S]
\* . without re.DOTALL, . with re.DOTALL, \s
Dot == NotIn({"\n"})
AnyChar == NotIn({})
Space == InSet(WS)
\* \w+ : one word.  A class of \w and the characters of S.
Word == [op |-> "word"]
WordOr(S) == [op |-> "wordor", set |-> S]
\* A literal word, under re.IGNORECASE (Kw) or not (Lit); a literal character.
Kw(kw) == [op |-> "kw", kw |-> kw]
Lit(w) == InSet({w})
\* x* x+ x*? x+? for a class x
Star(x) == [op |-> "rep", x |-> x, min |-> 0, greedy |-> TRUE]
Plus(x) == [op |-> "rep", x |-> x, min |-> 1, greedy |-> TRUE]
LazyStar(x) == [op |-> "rep", x |-> x, min |-> 0, greedy |-> FALSE]
LazyPlus(x) == [op |-> "rep", x |-> x, min |-> 1, greedy |-> FALSE]
\* xy  x|y  x?  (x)  (?=x)  \Z
Cat(xs) == [op |-> "cat", xs |-> xs]
Alt(xs) == [op |-> "alt", xs |-> xs]
Opt(x) == [op |-> "alt", xs |-> <<x, Cat(<<>>)>>]
Group(n, x) == [op |-> "group", n |-> n, x |-> x]
Ahead(x) == [op |-> "ahead", x |-> x]
AtEnd == [op |-> "end"]

\* The groups of a match: the positions <<first, after last>> of each, <<0, 0>>
\* for a group that took no part in the match.
NoGroups == [n \in 1..4 |-> <<0, 0>>]

ReFail == [ok |-> FALSE, start |-> 0, end |-> 0, groups |-> NoGroups]

\* Does the class x hold the character c?
ClassHas(x, c) ==
  CASE x.op = "in" -> c \in x.set
    [] x.op = "notin" -> c \notin x.set
    [] x.op = "word" -> IsWord(c)
    [] x.op = "wordor" -> IsWord(c) \/ c \in x.set
    [] x.op = "kw" -> Upper(c) = x.kw

\* The position after the longest run of characters of the class x from i.
RunEnd(x, s, i) ==
  CHOOSE j \in i..(Len(s) + 1) :
    /\ \A k \in i..(j - 1) : ClassHas(x, s[k])
    /\ (j = Len(s) + 1 \/ ~ClassHas(x, s[j]))

RECURSIVE ReMatch(_, _, _, _), ReTry(_, _, _, _, _, _)

\* The nodes of todo matched one after the other from position i: the first
\* match in the order of preference.
ReMatch(todo, s, i, groups) ==
  IF todo = <<>>
  THEN [ok |-> TRUE, start |-> 0, end |-> i, groups |-> groups]
  ELSE
    LET x == Head(todo)
        rest == Tail(todo)
    IN CASE x.op \in {"in", "notin", "word", "wordor", "kw"} ->
              IF i <= Len(s) /\ ClassHas(x, s[i])
              THEN ReMatch(rest, s, i + 1, groups) ELSE ReFail
         [] x.op = "rep" ->
              LET lo == i + x.min
                  hi == RunEnd(x.x, s, i)
              IN IF lo > hi THEN ReFail
                 ELSE IF x.greedy THEN ReTry(rest, s, hi, lo, 0 - 1, groups)
                 ELSE ReTry(rest, s, lo, hi, 1, groups)
         [] x.op = "cat" -> ReMatch(x.xs \o rest, s, i, groups)
         [] x.op = "alt" ->
              IF x.xs = <<>> THEN ReFail
              ELSE LET m == ReMatch(<<Head(x.xs)>> \o rest, s, i, groups)
                   IN IF m.ok THEN m
                      ELSE ReMatch(<<Alt(Tail(x.xs))>> \o rest, s, i, groups)
         [] x.op = "group" ->
              ReMatch(<<x.x, [op |-> "close", n |-> x.n, from |-> i]>> \o rest,
                      s, i, groups)
         [] x.op = "close" ->
              ReMatch(rest, s, i, [groups EXCEPT ![x.n] = <<x.from, i>>])
         [] x.op = "ahead" ->
              IF ReMatch(<<x.x>>, s, i, groups).ok
              THEN ReMatch(rest, s, i, groups) ELSE ReFail
         [] x.op = "end" ->
              IF i = Len(s) + 1 THEN ReMatch(rest, s, i, groups) ELSE ReFail

\* The rest of a repetition that may end at e, e + step, ..., last.
ReTry(todo, s, e, last, step, groups) ==
  LET m == ReMatch(todo, s, e, groups)
  IN IF m.ok THEN m
     ELSE IF e = last THEN ReFail
     ELSE ReTry(todo, s, e + step, last, step, groups)

\* pattern matched at position i.
ReAt(re, s, i) == [ReMatch(<<re>>, s, i, NoGroups) EXCEPT !.start = i]

\* The match at the least of the positions `found`, if there is one.
ReLeftmost(re, s, found) ==
  IF found = {} THEN ReFail
  ELSE ReAt(re, s, CHOOSE j \in found : \A k \in found : j <= k)

\* re.search(pattern, s) from position i on: the leftmost match.
ReSearch(re, s, i) ==
  ReLeftmost(re, s, {j \in i..(Len(s) + 1) : ReAt(re, s, j).ok})

RECURSIVE ReFindIter(_, _, _)

\* The match m, then the matches after it.
ReFindNext(re, s, m) ==
  IF ~m.ok THEN <<>>
  ELSE <<m>> \o ReFindIter(re, s, IF m.end > m.start THEN m.end
                                  ELSE m.end + 1)

\* re.finditer(pattern, s) from position i on.
ReFindIter(re, s, i) == ReFindNext(re, s, ReSearch(re, s, i))

\* match.group(n): None for a group that took no part in the match.
GroupOf(m, s, n) ==
  IF m.groups[n] = <<0, 0>> THEN None
  ELSE SubSeq(s, m.groups[n][1], m.groups[n][2] - 1)

----------------------------------------------------------------------------
(* _parse_ai_response                                                      *)

\* "```json" in response: the first position of it, or 0.
FenceJsonAt(s) ==
  IF \E i \in 1..(Len(s) - 1) : s[i] = Fence /\ s[i + 1] = "json"
  THEN CHOOSE i \in 1..(Len(s) - 1) :
         /\ s[i] = Fence /\ s[i + 1] = "json"
         /\ \A k \in 1..(i - 1) : ~(s[k] = Fence /\ s[k + 1] = "json")
  ELSE 0

\* s.split("```")[0]
BeforeFence(s) ==
  LET j == IndexFrom(s, 1, Fence)
  IN IF j = 0 THEN s ELSE SubSeq(s, 1, j - 1)

\* Extract JSON from markdown code blocks if present.
ExtractFenced(response) ==
  LET j == FenceJsonAt(response)
      f == IndexFrom(response, 1, Fence)
  IN IF j # 0 THEN BeforeFence(SubSeq(response, j + 2, Len(response)))
     ELSE IF f # 0 THEN BeforeFence(SubSeq(response, f + 1, Len(response)))
     ELSE response

CanonicalLists ==
  << <<"tables">>, <<"relationships">>, <<"code_snippets">>,
     <<"data_sources">>, <<"data_transformations">>,
     <<"potential_reuse_opportunities">> >>

SummaryKey == <<"documentation_summary">>

\* The seven fields of a result, the six lists in the order of CanonicalLists.
AnalysisData(lists, summary) ==
  PyDict([n \in 1..7 |->
            IF n <= 6 THEN <<CanonicalLists[n], lists[n]>>
            ELSE <<SummaryKey, summary>>])

\* The strict path: each field taken from parsed_data by key.
StrictResult(parsed_data) ==
  AnalysisData([n \in 1..6 |-> DictGet(parsed_data, CanonicalLists[n], PyList(<<>>))],
               DictGet(parsed_data, SummaryKey, PyStr(<<>>)))

table_pattern ==
  Cat(<<Alt(<<Kw("CLASS"), Kw("TABLE")>>), Plus(Space), Group(1, Word),
        Opt(Cat(<<Lit("("), LazyStar(Dot), Lit(")")>>)), Star(Space),
        Lit("{"), Group(2, Plus(NotIn({"}"}))), Lit("}")>>)

\* (?:\s*#\s*(.+))?
TrailingComment ==
  Opt(Cat(<<Star(Space), Lit("#"), Star(Space), Group(3, Plus(Dot))>>))

field_patterns ==
  << Cat(<<Group(1, Word), Star(Space), Lit(":"), Star(Space),
           Group(2, Plus(WordOr({"[", "]", "."}))),
           Opt(Cat(<<Star(Space), Lit("="), Star(Space),
                     Plus(NotIn({",", "\n"}))>>)),
           TrailingComment>>),
     Cat(<<Lit("self"), Lit("."), Group(1, Word), Star(Space), Lit("="),
           Star(Space), Group(2, Plus(NotIn({"#", "\n"}))), TrailingComment>>),
     Cat(<<Group(1, Word), Star(Space), Lit("="), Star(Space),
           Group(2, Plus(NotIn({"#", "\n"}))), TrailingComment>>) >>

\* The words of the texts that hold one of "str", "int", "float", "bool",
\* "list", "dict", "any" once in lower case.
TypeWords ==
  {"str", "int", "float", "bool", "list", "dict", "any", "string", "String",
   "integer", "Integer", "INT", "INTEGER", "List", "Dict", "boolean"}

HasTypeWord(field_type) ==
  \E k \in 1..Len(field_type) : field_type[k] \in TypeWords

\* field_type.replace(".", "").isdigit()
IsDigitsAndDots(t) ==
  /\ \A k \in 1..Len(t) : t[k] \in Digits \cup {"."}
  /\ \E k \in 1..Len(t) : t[k] \in Digits

\* Clean up the type if it is a value rather than a type.
InferType(field_type) ==
  IF HasTypeWord(field_type) THEN field_type
  ELSE IF field_type[1] \in {"\"", "'"} THEN <<"str">>
  ELSE IF IsDigitsAndDots(field_type)
  THEN (IF \E k \in 1..Len(field_type) : field_type[k] = "."
        THEN <<"float">> ELSE <<"int">>)
  ELSE IF Len(field_type) = 1 /\ Lower(field_type[1]) \in {"true", "false"}
  THEN <<"bool">>
  ELSE <<"any">>

\* description.strip() if description else ""
StripOrEmpty(description) ==
  IF description = None THEN <<>> ELSE Strip(description)

FieldOf(m, fields_text) ==
  PyDict(<< << <<"name">>, PyStr(Strip(GroupOf(m, fields_text, 1))) >>,
            << <<"type">>,
               PyStr(Strip(InferType(GroupOf(m, fields_text, 2)))) >>,
            << <<"description">>,
               PyStr(StripOrEmpty(GroupOf(m, fields_text, 3))) >> >>)

FieldsOfMatches(ms, fields_text) ==
  [k \in 1..Len(ms) |-> FieldOf(ms[k], fields_text)]

\* The fields of each pattern, in the order of its matches.
FieldsOf(fields_text) ==
  Concat([n \in 1..Len(field_patterns) |->
            FieldsOfMatches(ReFindIter(field_patterns[n], fields_text, 1),
                            fields_text)])

TableOfMatch(m, response) ==
  PyDict(<< << <<"name">>, PyStr(GroupOf(m, response, 1)) >>,
            << <<"fields">>, PyList(FieldsOf(GroupOf(m, response, 2))) >> >>)

HasFields(table) == ValOf(DictGet(table, <<"fields">>, PyNone)) # <<>>

TablesOfMatches(ms, response) ==
  SelectSeq([k \in 1..Len(ms) |-> TableOfMatch(ms[k], response)], HasFields)

\* The tables of the regex pass: only those that have fields.
TablesOf(response) ==
  TablesOfMatches(ReFindIter(table_pattern, response, 1), response)

\* The words of the texts that hold "id" in any case.
IdWords == {"id", "ID", "Id", "user_id", "USER_ID", "author_id", "valid"}

rel_patterns ==
  << Cat(<<Alt(<<Kw("RELATIONSHIP"),
                 Cat(<<Kw("FOREIGN"), Space, Kw("KEY")>>),
                 Kw("FOREIGN_KEY")>>),
           Lit(":"), Star(Space), Group(1, Word), Lit("."), Group(2, Word),
           Star(Space), Lit("-"), Lit(">"), Star(Space),
           Group(3, Word), Lit("."), Group(4, Word)>>),
     Cat(<<Group(1, Word), Plus(Space), Kw("REFERENCES"), Plus(Space),
           Group(2, Word),
           Opt(Cat(<<Lit("("), Group(3, Word), Lit(")")>>))>>),
     Cat(<<Opt(Cat(<<Kw("SELF"), Lit(".")>>)), Group(1, Word),
           Alt(<<Cat(<<Star(Space), Lit("="), Star(Space)>>),
                 Cat(<<Star(Space), Lit(":"), Star(Space)>>)>>),
           LazyStar(Dot), InSet(IdWords), LazyStar(Dot), Lit("#"),
           LazyStar(Dot), Kw("REFERENCES"), Plus(Space), Group(2, Word)>>) >>

\* len(match.groups()) of each of rel_patterns
RelGroups == <<4, 3, 2>>

PyGroup(m, s, n) ==
  IF GroupOf(m, s, n) = None THEN PyNone ELSE PyStr(GroupOf(m, s, n))

RelationshipOf(n, m, s) ==
  IF RelGroups[n] = 4
  THEN PyDict(<< << <<"from_table">>, PyGroup(m, s, 1) >>,
                 << <<"from_field">>, PyGroup(m, s, 2) >>,
                 << <<"to_table">>, PyGroup(m, s, 3) >>,
                 << <<"to_field">>, PyGroup(m, s, 4) >>,
                 << <<"type">>, PyStr(<<"foreign_key">>) >> >>)
  ELSE IF RelGroups[n] = 2
  THEN PyDict(<< << <<"from_table">>, PyGroup(m, s, 1) >>,
                 << <<"to_table">>, PyGroup(m, s, 2) >>,
                 << <<"type">>, PyStr(<<"foreign_key">>) >> >>)
  ELSE PyDict(<< << <<"from_table">>, PyGroup(m, s, 1) >>,
                 << <<"to_table">>, PyGroup(m, s, 2) >>,
                 << <<"to_field">>, PyGroup(m, s, 3) >>,
                 << <<"type">>, PyStr(<<"foreign_key">>) >> >>)

RelationshipsOfMatches(n, ms, response) ==
  [k \in 1..Len(ms) |-> RelationshipOf(n, ms[k], response)]

RelationshipsOf(response) ==
  Concat([n \in 1..Len(rel_patterns) |->
            RelationshipsOfMatches(n, ReFindIter(rel_patterns[n], response, 1),
                                   response)])

code_pattern ==
  Cat(<<Lit(Fence), Opt(Group(1, Word)), Lit("\n"),
        Group(2, LazyStar(AnyChar)), Lit(Fence)>>)

\* (match.group(1) or "python").lower()
LanguageOf(tag) == IF tag = None THEN <<"python">> ELSE <<Lower(tag[1])>>

CodeSnippetOf(m, response) ==
  PyDict(<< << <<"code">>, PyStr(Strip(GroupOf(m, response, 2))) >>,
            << <<"language">>, PyStr(LanguageOf(GroupOf(m, response, 1))) >>,
            << <<"description">>, PyStr(<<>>) >> >>)

CodeSnippetsOfMatches(ms, response) ==
  [k \in 1..Len(ms) |-> CodeSnippetOf(ms[k], response)]

CodeSnippetsOf(response) ==
  CodeSnippetsOfMatches(ReFindIter(code_pattern, response, 1), response)

\* (?=\n\n|\Z)
BlankLineOrEnd == Ahead(Alt(<<Cat(<<Lit("\n"), Lit("\n")>>), AtEnd>>))

\* "summary" and "documentation" are looked for anywhere, so also at the end
\* of the word documentation_summary.
summary_patterns ==
  << Cat(<<Alt(<<Kw("SUMMARY"), Kw("DOCUMENTATION"),
                 Lit("documentation_summary")>>),
           Lit(":"), Star(Space), Group(1, LazyPlus(AnyChar)),
           BlankLineOrEnd>>),
     Cat(<<Lit("/"), Lit("*"), Lit("*"), Star(Space), Lit("\n"), Star(Space),
           Lit("*"), Star(Space), Group(1, LazyPlus(AnyChar)), Star(Space),
           Lit("\n"), Star(Space), Lit("*"), Lit("/")>>),
     Cat(<<Lit("#"), Star(Space), Group(1, LazyPlus(AnyChar)),
           BlankLineOrEnd>>) >>

\* The summary of the first of the matches ms that is one, else "".
FirstSummary(ms, response) ==
  IF \E n \in 1..Len(ms) : ms[n].ok
  THEN Strip(GroupOf(ms[CHOOSE n \in 1..Len(ms) :
                          ms[n].ok /\ \A j \in 1..(n - 1) : ~ms[j].ok],
                     response, 1))
  ELSE <<>>

SummaryOf(response) ==
  FirstSummary([n \in 1..Len(summary_patterns) |->
                  ReSearch(summary_patterns[n], response, 1)], response)

\* The summary generated from the tables and relationships.
GeneratedSummary(tables, relationships) ==
  LET names == [k \in 1..Len(tables) |->
                  ValOf(DictGet(tables[k], <<"name">>, PyNone))]
  IN IF tables = <<>> THEN <<>>
     ELSE <<"Code", " ", "defines", " ", ToString(Len(tables)), " ", "main",
            " ", "data", " ", "structures", ":", " ">>
          \o Join(names, <<",", " ">>) \o <<".">>
          \o (IF relationships = <<>> THEN <<>>
              ELSE <<" ", "Contains", " ", ToString(Len(relationships)), " ",
                     "relationships", " ", "between", " ", "entities", ".">>)

\* analysis_data of the regex pass, from what the patterns found.
RegexData(tables, relationships, code_snippets, summary) ==
  AnalysisData(<<PyList(tables), PyList(relationships),
                 PyList(code_snippets), PyList(<<>>), PyList(<<>>),
                 PyList(<<>>)>>,
               PyStr(IF summary # <<>> THEN summary
                     ELSE GeneratedSummary(tables, relationships)))

\* The regex pass over the text that is not a JSON object.
RegexResult(response) ==
  RegexData(TablesOf(response), RelationshipsOf(response),
            CodeSnippetsOf(response), SummaryOf(response))

\* str(e) of the AttributeError that None.strip() raises.
NoneHasNoStrip ==
  <<"'", "NoneType", "'", " ", "object", " ", "has", " ", "no", " ",
    "attribute", " ", "'", "strip", "'">>

\* The basic structure returned when parsing raised e.
ErrorResult(e) ==
  AnalysisData([n \in 1..6 |-> PyList(<<>>)],
               PyStr(<<"Error", " ", "parsing", " ", "response", ":", " ">>
                     \o e))

\* The result for the stripped text and what json.loads made of it.
ResultOf(text, parsed_data) ==
  IF parsed_data.ok /\ TagOf(parsed_data.val) = "dict"
  THEN StrictResult(parsed_data.val)
  ELSE RegexResult(text)

\* The text that is parsed: stripped, taken out of its fence, stripped.
CleanedUp(response) == Strip(ExtractFenced(Strip(response)))

ParseCleaned(text) == ResultOf(text, json_loads(text))

parse_ai_response(response) ==
  IF response = None THEN ErrorResult(NoneHasNoStrip)
  ELSE ParseCleaned(CleanedUp(response))

----------------------------------------------------------------------------
(* parse_sql_manually (api/routes/databases.py, lines 91-162, and the copy *)
(* of it in test_sql_parser.py): the statements are found by a pattern,    *)
(* the text between the parentheses is split at every comma, and each      *)
(* piece is a foreign key, a column or nothing.                            *)

\* Under re.DOTALL | re.IGNORECASE.
create_table_pattern ==
  Cat(<<Kw("CREATE"), Plus(Space), Kw("TABLE"), Plus(Space), Group(1, Word),
        Star(Space), Lit("("), Group(2, LazyStar(AnyChar)), Lit(")"),
        Lit(";")>>)

column_pattern ==
  Cat(<<Group(1, Word), Plus(Space), Group(2, Word),
        Opt(Cat(<<Plus(Space), Group(3, Word)>>))>>)

foreign_key_pattern ==
  Cat(<<Kw("FOREIGN"), Plus(Space), Kw("KEY"), Plus(Space), Lit("("),
        Group(1, Word), Lit(")"), Plus(Space), Kw("REFERENCES"), Plus(Space),
        Group(2, Word), Lit("("), Group(3, Word), Lit(")")>>)

\* "A B" in line.upper(), "A" in line.upper()
HoldsTwoWords(line, kw1, kw2) ==
  \E i \in 1..(Len(line) - 2) :
    IsKw(line, i, kw1) /\ line[i + 1] = " " /\ IsKw(line, i + 2, kw2)

HoldsWord(line, kw) == \E i \in 1..Len(line) : IsKw(line, i, kw)

ManualConstraints(line) ==
     (IF HoldsTwoWords(line, "PRIMARY", "KEY")
      THEN << <<"PRIMARY", " ", "KEY">> >> ELSE <<>>)
  \o (IF HoldsTwoWords(line, "NOT", "NULL")
      THEN << <<"NOT", " ", "NULL">> >> ELSE <<>>)
  \o (IF HoldsWord(line, "UNIQUE") THEN << <<"UNIQUE">> >> ELSE <<>>)

\* col_name.replace('_', ' ').title(), on the words that a piece starts with.
Title(col_name) ==
  CASE col_name = "id" -> <<"Id">>
    [] col_name = "user_id" -> <<"User", " ", "Id">>
    [] col_name = "username" -> <<"Username">>
    [] col_name = "email" -> <<"Email">>
    [] col_name = "created_at" -> <<"Created", " ", "At">>
    [] col_name = "title" -> <<"Title">>
    [] col_name = "content" -> <<"Content">>
    [] col_name = "name" -> <<"Name">>
    [] col_name = "price" -> <<"Price">>
    [] col_name = "kind" -> <<"Kind">>
    [] col_name = "NOT" -> <<"Not">>
    [] col_name = "FOREIGN" -> <<"Foreign">>
    [] col_name = "REFERENCES" -> <<"References">>
    [] col_name = "b" -> <<"B">>
    [] OTHER -> <<col_name>>

ManualColumn(m, line, table_name) ==
  [name |-> GroupOf(m, line, 1),
   type |-> GroupOf(m, line, 2),
   description |-> Title(GroupOf(m, line, 1)[1])
                     \o <<" ", "of", " ", "the", " ">> \o table_name,
   constraints |-> ManualConstraints(line)]

ManualRelationship(m, line, table_name) ==
  [from_table |-> table_name, from_column |-> GroupOf(m, line, 1),
   to_table |-> GroupOf(m, line, 2), to_column |-> GroupOf(m, line, 3),
   type |-> "many-to-one"]

\* [line.strip() for line in columns_text.split(",")]
ManualLines(columns_text) ==
  [k \in 1..Len(SplitOn(columns_text, ",")) |->
     Strip(SplitOn(columns_text, ",")[k])]

IsForeignKeyLine(line) == ReSearch(foreign_key_pattern, line, 1).ok

\* What one line adds to the columns of its table ...
ColumnsOfLine(line, table_name) ==
  IF IsForeignKeyLine(line) \/ ~ReSearch(column_pattern, line, 1).ok
  THEN <<>>
  ELSE <<ManualColumn(ReSearch(column_pattern, line, 1), line, table_name)>>

\* ... and to the relationships.
RelationshipsOfLine(line, table_name) ==
  IF IsForeignKeyLine(line)
  THEN <<ManualRelationship(ReSearch(foreign_key_pattern, line, 1), line,
                            table_name)>>
  ELSE <<>>

ManualTable(table_name, lines) ==
  [name |-> table_name,
   columns |-> Concat([k \in 1..Len(lines) |->
                         ColumnsOfLine(lines[k], table_name)])]

ManualRelationships(table_name, lines) ==
  Concat([k \in 1..Len(lines) |-> RelationshipsOfLine(lines[k], table_name)])

ManualResult(ms, sql_code) ==
  [tables |->
     [k \in 1..Len(ms) |->
        ManualTable(GroupOf(ms[k], sql_code, 1),
                    ManualLines(GroupOf(ms[k], sql_code, 2)))],
   relationships |->
     Concat([k \in 1..Len(ms) |->
               ManualRelationships(GroupOf(ms[k], sql_code, 1),
                                   ManualLines(GroupOf(ms[k], sql_code,
                                                       2)))])]

parse_sql_manually(sql_code) ==
  ManualResult(ReFindIter(create_table_pattern, sql_code, 1), sql_code)

----------------------------------------------------------------------------
(* The inputs of parse_sql.  An input is a text before the statements, a   *)
(* sequence of CREATE TABLE statements and a text after them; a statement  *)
(* is a header, its definitions and its closing text.                      *)

MaxCtx == 1
MaxDefs == 2
MaxStmts == 2

SeqsUpTo(S, n) == UNION {[1..k -> S] : k \in 0..n}

Def(kind, text, cols, ref, refcols) ==
  [kind |-> kind, text |-> text, cols |-> cols, ref |-> ref,
   refcols |-> refcols]

\* A column definition: cols holds the name of the column.
ColumnDef(name, text) == Def("column", text, <<name>>, <<>>, <<>>)

DefId == ColumnDef(<<"id">>, <<"id", " ", "INTEGER", " ", "PRIMARY", " ", "KEY">>)
DefName == ColumnDef(<<"name">>, <<"name", " ", "TEXT", " ", "NOT", " ", "NULL">>)
DefEmail == ColumnDef(<<"email">>, <<"email", " ", "TEXT", " ", "UNIQUE">>)
DefUserId == ColumnDef(<<"user_id">>, <<"user_id", " ", "INTEGER">>)
DefDefaultParen ==
  ColumnDef(<<"x">>, <<"x", " ", "INT", " ", "DEFAULT", " ", "(", "a", ",", "b", ")">>)
DefCheckIn ==
  ColumnDef(<<"c">>, <<"c", " ", "INT", " ", "CHECK", " ", "(", "x", " ", "IN", " ",
              "(", "1", ",", "2", ")", ")">>)
DefQuoted ==
  ColumnDef(<<"q">>, <<Backtick, "q", Backtick, " ", "TEXT", " ", "default", " ",
              "'", "a", ",", "b", "'">>)
DefFk ==
  Def("fk", <<"FOREIGN", " ", "KEY", " ", "(", "user_id", ")", " ",
              "REFERENCES", " ", "users", "(", "id", ")">>,
      << <<"user_id">> >>, <<"users">>, << <<"id">> >>)
DefFkNoTarget ==
  Def("fk", <<"foreign", " ", "key", " ", "(", "a", ",", " ", "b", ")", " ",
              "references", " ", "users">>,
      << <<"a">>, <<"b">> >>, <<"users">>, << <<"id">> >>)
DefCompositePk ==
  Def("constraint", <<"PRIMARY", " ", "KEY", " ", "(", "a", ",", " ", "b", ")">>,
      <<>>, <<>>, <<>>)

\* Fragments that are no definition: a name alone, a name without a type.
DefNameOnly == Def("malformed", <<"flag">>, <<>>, <<>>, <<>>)
DefNoType == Def("malformed", <<"x", " ", "=", " ", "1">>, <<>>, <<>>, <<>>)
\* Defaults: a number; a string in double quotes that holds a single quote
\* and a comma; a string in single quotes that holds a comma and a closing
\* parenthesis.
DefDefaultZero ==
  ColumnDef(<<"n">>, <<"n", " ", "INT", " ", "DEFAULT", " ", "0">>)
DefMixedQuotes ==
  ColumnDef(<<"m">>, <<"m", " ", "TEXT", " ", "DEFAULT", " ",
              "\"", "a", "'", "b", ",", " ", "c", "\"">>)
DefOpenQuote ==
  ColumnDef(<<"o">>, <<"o", " ", "TEXT", " ", "DEFAULT", " ",
              "'", "a", ",", " ", "b", ")", "'">>)

DefPool == {DefId, DefName, DefDefaultParen, DefCheckIn, DefQuoted, DefFk,
            DefFkNoTarget, DefCompositePk, DefNameOnly, DefNoType,
            DefDefaultZero, DefMixedQuotes, DefOpenQuote}

Stmt(hdr, name, defs, close) ==
  [hdr |-> hdr, name |-> name, defs |-> defs, close |-> close]

Header(name) == <<"CREATE", " ", "TABLE", " ">> \o name \o <<" ", "(">>

HeaderPool ==
  { [hdr |-> Header(<<"t">>), name |-> <<"t">>],
    [hdr |-> <<"create", " ", "table", " ", "IF", " ", "NOT", " ", "EXISTS",
               "\n", "\"", "posts", "\"", "(">>, name |-> <<"posts">>],
    [hdr |-> <<"CREATE", " ", "TABLE", " ", "(">>, name |-> None] }

StmtText(st) ==
  st.hdr \o Join([k \in 1..Len(st.defs) |-> st.defs[k].text], <<",", " ">>)
         \o st.close

StmtC1 == Stmt(Header(<<"t">>), <<"t">>, <<DefId, DefName>>, <<")">>)
StmtUsers ==
  Stmt(Header(<<"users">>), <<"users">>, <<DefId, DefEmail>>, <<")", ";">>)
StmtPosts ==
  Stmt(Header(<<"posts">>), <<"posts">>, <<DefId, DefUserId, DefFk>>,
       <<")", ";">>)
StmtDefault ==
  Stmt(Header(<<"a">>), <<"a">>, <<DefDefaultParen, DefName>>, <<")", ";">>)

StmtPool == {StmtC1, StmtUsers, StmtPosts, StmtDefault}

\* Texts around a statement: a statement separator, the start of a line
\* comment, a line comment that holds a CREATE TABLE header, a closing
\* parenthesis, an opening quote, a line break.
CommentedHeader ==
  <<"-", "-", " ", "CREATE", " ", "TABLE", " ", "old", " ", "(", "\n">>

CtxPool == { <<";", " ">>, <<"-", "-", " ">>, CommentedHeader, <<")", " ">>,
             <<"'">>, <<"\n">> }

CtxTexts == {Concat(cs) : cs \in SeqsUpTo(CtxPool, MaxCtx)}

Case(pre, stmts, suf) == [pre |-> pre, stmts |-> stmts, suf |-> suf]

SqlCases ==
       {Case(p, <<StmtC1>>, x) : p \in CtxTexts, x \in CtxTexts}
  \cup {Case(<<>>, <<Stmt(h.hdr, h.name, ds, <<")">>)>>, <<>>) :
          h \in HeaderPool, ds \in SeqsUpTo(DefPool, MaxDefs) \ {<<>>}}
  \cup {Case(<<>>, ss, <<>>) : ss \in SeqsUpTo(StmtPool, MaxStmts) \ {<<>>}}

\* The text before statement k of a case, and the text of the case.
TextBefore(c, k) ==
  c.pre \o Concat([j \in 1..(k - 1) |-> StmtText(c.stmts[j]) \o <<" ">>])

SqlText(c) ==
  c.pre \o Join([j \in 1..Len(c.stmts) |-> StmtText(c.stmts[j])], <<" ">>)
        \o c.suf

----------------------------------------------------------------------------
(* The inputs of parse_sql_manually: statements 'CREATE TABLE name (...);' *)
(* written on one line or with one definition on each line, as the sample  *)
(* of test_sql_parser.py is.                                               *)

DefUsername ==
  ColumnDef(<<"username">>,
            <<"username", " ", "TEXT", " ", "NOT", " ", "NULL">>)
DefCreatedAt ==
  ColumnDef(<<"created_at">>, <<"created_at", " ", "TIMESTAMP">>)
DefTitle ==
  ColumnDef(<<"title">>, <<"title", " ", "TEXT", " ", "NOT", " ", "NULL">>)
DefContent == ColumnDef(<<"content">>, <<"content", " ", "TEXT">>)
DefPrice ==
  ColumnDef(<<"price">>, <<"price", " ", "DECIMAL", "(", "10", ",", " ", "2",
                           ")", " ", "NOT", " ", "NULL">>)
DefKind ==
  ColumnDef(<<"kind">>, <<"kind", " ", "VARCHAR", "(", "10", ")", " ",
                          "unique">>)

ManualDefPool == {DefId, DefUserId, DefEmail, DefPrice, DefKind, DefFk}

\* The statements of the sample.
SampleUsers ==
  Stmt(Header(<<"users">>), <<"users">>,
       <<DefId, DefUsername, DefEmail, DefCreatedAt>>, <<")", ";">>)

SamplePosts ==
  Stmt(Header(<<"posts">>), <<"posts">>,
       <<DefId, DefUserId, DefTitle, DefContent, DefCreatedAt, DefFk>>,
       <<")", ";">>)

Layouts == {"line", "block"}

Indent == <<"\n", " ", " ", " ", " ">>

LaidOut(st, layout) ==
  IF layout = "line" THEN StmtText(st)
  ELSE st.hdr \o Indent
         \o Join([k \in 1..Len(st.defs) |-> st.defs[k].text],
                 <<",">> \o Indent)
         \o <<"\n">> \o st.close

ManualCase(stmts, layout) == [stmts |-> stmts, layout |-> layout]

ManualCases ==
       {ManualCase(<<Stmt(Header(<<"t">>), <<"t">>, ds, <<")", ";">>)>>, l) :
          ds \in SeqsUpTo(ManualDefPool, MaxDefs) \ {<<>>}, l \in Layouts}
  \cup {ManualCase(<<SampleUsers, SamplePosts>>, l) : l \in Layouts}

ManualText(c) ==
  <<"\n">> \o Concat([k \in 1..Len(c.stmts) |->
                        LaidOut(c.stmts[k], c.layout) \o <<"\n", "\n">>])

----------------------------------------------------------------------------
(* The calls of the orchestrator.  A request is one call of analyze_code   *)
(* or of analyze_code_with_llm; its frame holds the arguments and locals   *)
(* of the call, the provider events of the call in the order they happen   *)
(* (log), and how the call ended.  An id of 0 stands for None: the ids of  *)
(* the tables start at 1.                                                  *)

MaxReqs == 2

Reqs == 1..MaxReqs

\* The frame of a call.  Three fields are history, not locals of the code:
\* `others` is where the other requests were when this one suspended at the
\* await, `interleaved` whether one of them moved, or was suspended too,
\* before this one resumed, and `given_id` is the argument analysis_id, which
\* the local analysis_id is until line 309 assigns to it.
IdleFrame ==
  [op |-> "none", pc |-> "idle", code |-> <<>>, analysis_id |-> 0,
   given_id |-> 0,
   others |-> [q \in Reqs |-> "idle"], interleaved |-> FALSE,
   user_id |-> 0, log |-> <<>>,
   openai_response |-> None, openai_error |-> None,
   gemini_response |-> None, gemini_error |-> None, errors |-> <<>>,
   analysis_result |-> PyNone, model_used |-> <<>>,
   execution_status |-> "success", error_message |-> None,
   outcome |-> "none", exc |-> None,
   ret |-> [analysis_id |-> 0, results |-> PyNone]]

\* No call of submit_for_review or submit_review yet.
NoReview ==
  [n |-> 0, op |-> "none", analysis_id |-> 0, reviewer_id |-> 0,
   approved |-> FALSE, outcome |-> "none", exc |-> None]

\* No service: the specifications of parse_sql and _parse_ai_response on
\* their own.
SvcIdle ==
  /\ ai = "none"
  /\ google_api_key = FALSE
  /\ analyses = <<>>
  /\ executions = <<>>
  /\ req = [r \in Reqs |-> IdleFrame]
  /\ review = NoReview
  /\ trail = <<>>

----------------------------------------------------------------------------
(* parse_sql as a call: the input is drawn, then parsed.                   *)

\* No call of parse_sql on its own, no call of _parse_ai_response on its own.
SqlIdle ==
  /\ sqlPc = "idle"
  /\ sqlCase = Case(<<>>, <<>>, <<>>)
  /\ sqlIn = <<>>
  /\ sqlOut = [tables |-> <<>>, type |-> ""]

NormIdle ==
  /\ normPc = "idle"
  /\ normIn = <<>>
  /\ normOut = PyNone
  /\ normAgain = PyNone

ManIdle ==
  /\ manPc = "idle"
  /\ manCase = <<>>
  /\ manIn = <<>>
  /\ manOut = [tables |-> <<>>, relationships |-> <<>>]

SqlInit ==
  /\ sqlPc = "call"
  /\ sqlCase \in SqlCases
  /\ sqlIn = SqlText(sqlCase)
  /\ sqlOut = [tables |-> <<>>, type |-> ""]
  /\ NormIdle
  /\ ManIdle
  /\ SvcIdle

ParseSql ==
  /\ sqlPc = "call"
  /\ sqlPc' = "return"
  /\ sqlOut' = parse_sql(sqlIn)
  /\ UNCHANGED <<sqlCase, sqlIn, normVars, manVars, svcVars, revVars>>

SqlNext == ParseSql

SpecSql == SqlInit /\ [][SqlNext]_vars

----------------------------------------------------------------------------
(* parse_sql_manually as a call: the input is drawn, then parsed.          *)

ManualInit ==
  /\ manPc = "call"
  /\ manCase \in ManualCases
  /\ manIn = ManualText(manCase)
  /\ manOut = [tables |-> <<>>, relationships |-> <<>>]
  /\ SqlIdle
  /\ NormIdle
  /\ SvcIdle

ParseSqlManually ==
  /\ manPc = "call"
  /\ manPc' = "return"
  /\ manOut' = parse_sql_manually(manIn)
  /\ UNCHANGED <<manCase, manIn, sqlVars, normVars, svcVars, revVars>>

ManualNext == ParseSqlManually

SpecManual == ManualInit /\ [][ManualNext]_vars

----------------------------------------------------------------------------
(* The inputs of _parse_ai_response: JSON objects that hold one of the     *)
(* canonical keys with a list, null or another value, alone or with the    *)
(* other keys, as they are, fenced or after a sentence; JSON values that    *)
(* are no object; texts that are no JSON; None.                            *)

CanonicalKeys == Append(CanonicalLists, SummaryKey)

Quoted(text) == <<"\"">> \o text \o <<"\"">>

Member(key, value) == Quoted(key) \o <<":", " ">> \o value

JsonObject(members) == <<"{">> \o Join(members, <<",", " ">>) \o <<"}">>

JsonTable ==
  JsonObject(<<Member(<<"name">>, Quoted(<<"users">>)),
               Member(<<"fields">>, <<"[", "]">>)>>)

JsonValuePool ==
  { <<"[", "]">>, <<"[">> \o JsonTable \o <<"]">>, <<"null">>,
    Quoted(<<"a", " ", "b">>), <<"1">>, <<"{", "}">> }

\* Every canonical key with an empty list, but for the keys of `omitted`.
JsonWithout(omitted) ==
  LET kept == SelectSeq(CanonicalKeys, LAMBDA k : k \notin omitted)
  IN JsonObject([n \in 1..Len(kept) |->
                   Member(kept[n], IF kept[n] = SummaryKey
                                   THEN Quoted(<<"a", " ", "b">>)
                                   ELSE <<"[", "]">>)])

JsonObjects ==
       {JsonObject(<<Member(k, v)>>) :
          k \in {CanonicalKeys[n] : n \in 1..7}, v \in JsonValuePool}
  \cup {JsonWithout({}), JsonWithout({<<"tables">>}),
        JsonWithout({SummaryKey, <<"data_sources">>}),
        JsonWithout({CanonicalKeys[n] : n \in 3..7}), JsonObject(<<>>)}

Fenced(tag, text) == <<Fence>> \o tag \o <<"\n">> \o text \o <<"\n", Fence>>

Wrappings(text) ==
  { text, Fenced(<<"json">>, text), Fenced(<<>>, text),
    <<" ", "\n">> \o text \o <<"\n">>,
    <<"Here", " ", "is", " ", "the", " ", "result", ":", "\n">>
      \o Fenced(<<"json">>, text) \o <<"\n", "Done", ".">>,
    <<"Result", " ">> \o text }

\* JSON objects whose strings hold an escape, or backticks as they are.
JsonEscaped ==
  { JsonObject(<<Member(SummaryKey,
                        Quoted(<<"use", " ", EscFence, "sql", EscFence>>))>>),
    JsonObject(<<Member(SummaryKey,
                        Quoted(<<"a", " ", EscQuote, "b", EscQuote,
                                 EscNewline, "c">>))>>),
    JsonObject(<<Member(SummaryKey, Quoted(<<"a", Backtick, "b">>))>>),
    JsonObject(<<Member(SummaryKey,
                        Quoted(<<"use", " ", Fence, "sql", Fence>>)),
                 Member(<<"tables">>, <<"[">> \o JsonTable \o <<"]">>)>>) }

NotObjects ==
  { <<"[", "]">>, <<"null">>, <<"1">>, Quoted(<<"x">>), <<"true">>,
    <<"[">> \o JsonObject(<<>>) \o <<"]">> }

PlainTexts ==
  { <<>>, <<" ">>, <<"hello", " ", "world">>,
    <<"I", " ", "cannot", " ", "analyze", " ", "this", ".">>,
    <<"{", "\"", "tables", "\"", ":", " ", "[">>,
    <<"class", " ", "User", " ", "{", "name", ":", " ", "str", "}">>,
    <<"class", " ", "User", " ", "{", "}">>,
    <<"table", " ", "posts", "(", "x", ")", "\n", "{", "\n", "self", ".",
      "title", " ", "=", " ", "\"", "a", "\"", " ", "#", " ", "the", " ",
      "title", "\n", "n", " ", "=", " ", "1", ".", "2", "\n", "}">>,
    <<"posts", " ", "references", " ", "users", "(", "id", ")">>,
    <<"posts", " ", "references", " ", "users">>,
    <<"relationship", ":", " ", "posts", ".", "user_id", " ", "-", ">", " ",
      "users", ".", "id">>,
    <<"author", ":", " ", "user_id", " ", "#", " ", "References", " ",
      "users">>,
    <<"Summary", ":", " ", "two", " ", "tables", "\n", "\n", "more">>,
    <<"#", " ", "Analysis", "\n", "done">>,
    <<"/", "*", "*", "\n", " ", "*", " ", "The", " ", "users", "\n", " ",
      "*", "/">>,
    Fenced(<<"python">>, <<"x", " ", "=", " ", "1">>),
    <<"see", " ">> \o Fenced(<<>>, <<"x", " ", "=", " ", "1">>)
      \o <<" ", "and", " ">> \o Fenced(<<"SQL">>, <<"y">>) }

NormInputs ==
  UNION {Wrappings(t) : t \in JsonObjects \cup JsonEscaped} \cup NotObjects
    \cup PlainTexts
    \cup {None}

----------------------------------------------------------------------------
(* _parse_ai_response as a call: the input is drawn, then normalized.      *)

NormInit ==
  /\ normPc = "call"
  /\ normIn \in NormInputs
  /\ normOut = PyNone
  /\ normAgain = PyNone
  /\ SqlIdle
  /\ ManIdle
  /\ SvcIdle

ParseAiResponse ==
  /\ normPc = "call"
  /\ normPc' = "return"
  /\ normOut' = parse_ai_response(normIn)
  /\ UNCHANGED <<normIn, normAgain, sqlVars, manVars, svcVars, revVars>>

\* The result is serialized and the text is normalized in its turn.
ReparseSerialized ==
  /\ normPc = "return"
  /\ normPc' = "reparsed"
  /\ normAgain' = parse_ai_response(json_dumps(normOut))
  /\ UNCHANGED <<normIn, normOut, sqlVars, manVars, svcVars, revVars>>

NormNext == ParseAiResponse \/ ReparseSerialized

SpecNorm == NormInit /\ [][NormNext]_vars

----------------------------------------------------------------------------
(* The orchestrator: analyze_code (lines 158-343), store_analysis_results  *)
(* (345-361) and analyze_code_with_llm (1017-1153).                        *)
(*                                                                         *)
(* The service is constructed with an OpenAI client: None when there is no *)
(* OPENAI_API_KEY (main.py:57-65), the synchronous client OpenAI(...) that *)
(* main.py:60 and routes/analysis.py:19 pass, or a client whose create()   *)
(* is awaitable, which the await of line 184 is written for.  A call of    *)
(* analyze_code is suspended only at that await, and only with an          *)
(* awaitable client: the Gemini call and the session are synchronous.      *)

AiKinds == {"none", "sync", "async"}

\* What a provider call does: it raises e or it returns a text.
Raises(e) == [raised |-> TRUE, text |-> e]

Returns(text) == [raised |-> FALSE, text |-> text]

\* str(e) of the errors of the providers and of the session.
ConnectionError == <<"Connection", " ", "error", ".">>

InvalidKey == <<"API", " ", "key", " ", "not", " ", "valid", ".">>

NoKey == <<"No", " ", "API_KEY", " ", "or", " ", "ADC", " ", "found", ".">>

DbError == <<"database", " ", "is", " ", "locked">>

\* str(e) of self.ai.chat when self.ai is None, and of the await of the
\* ChatCompletion that the synchronous client returns.
NoneHasNoChat ==
  <<"'", "NoneType", "'", " ", "object", " ", "has", " ", "no", " ",
    "attribute", " ", "'", "chat", "'">>

CantAwait ==
  <<"object", " ", "ChatCompletion", " ", "can", "'", "t", " ", "be", " ",
    "used", " ", "in", " ", "'", "await", "'", " ", "expression">>

\* message.content of the OpenAI response and response.text of Gemini.
OpenAIJson ==
  JsonObject(<<Member(<<"tables">>, <<"[">> \o JsonTable \o <<"]">>)>>)

GeminiJson == Fenced(<<"json">>, JsonWithout({}))

Contents == {OpenAIJson, <<"hello", " ", "world">>, None}

GeminiTexts ==
  {GeminiJson, <<"I", " ", "cannot", " ", "analyze", " ", "this", ".">>}

OpenAIOutcomes == {Raises(ConnectionError)} \cup {Returns(c) : c \in Contents}

\* Without a key generate_content raises.
GeminiOutcomes ==
  IF google_api_key
  THEN {Raises(InvalidKey)} \cup {Returns(t) : t \in GeminiTexts}
  ELSE {Raises(NoKey)}

\* The code that is analyzed: a statement with columns, a statement without,
\* a query, an assignment.
CodeNoFields == <<"create", " ", "table", " ", "t", " ", "(", ")">>

CodeSelect == <<"SELECT", " ", "a", " ", "FROM", " ", "b">>

CodePython == <<"x", " ", "=", " ", "1">>

Codes == {StmtText(StmtUsers), CodeNoFields, CodeSelect, CodePython}

AnalysisIds == 0..MaxReqs

UserIds == {0, 1}

\* The pattern of line 169, under re.IGNORECASE.
sql_keywords ==
  Alt(<<Cat(<<Kw("CREATE"), Plus(Space), Kw("TABLE")>>),
        Cat(<<Kw("ALTER"), Plus(Space), Kw("TABLE")>>),
        Cat(<<Kw("SELECT"), Plus(Space), Star(Dot), Plus(Space),
              Kw("FROM")>>)>>)

LooksLikeSql(code) == ReSearch(sql_keywords, code, 1).ok

\* self.parse_sql(code) and self._parse_ai_response(text), of every code
\* and every response there is.
ParsedSql == [code \in Codes |-> parse_sql(code)]

NormalizedResponse ==
  [response \in Contents \cup GeminiTexts |-> parse_ai_response(response)]

\* A faulty variant of FoundTables: only tables with fields count.
FoundFields(analysis_result) ==
  \E k \in 1..Len(analysis_result.tables) :
    Len(analysis_result.tables[k].fields) > 0

\* if analysis_result["tables"]: a list is true when it is not empty.
FoundTables(analysis_result) == Len(analysis_result.tables) > 0

\* Lines 169-171: is the result of parse_sql returned for this code?
TakesSqlPath(code) == LooksLikeSql(code) /\ FoundTables(ParsedSql[code])

SqlCodes == {code \in Codes : TakesSqlPath(code)}

OtherCodes == Codes \ SqlCodes

OpenAITag == <<"OpenAI", " ", "GPT", "-", "3", ".", "5", " ", "Turbo">>

SqlParserTag == <<"SQL", " ", "Parser">>

GeminiTag == <<"Gemini", " ", "1", ".", "5", " ", "Pro">>

\* The frame of a call that was just entered.
Called(op, code, analysis_id, user_id) ==
  [IdleFrame EXCEPT !.op = op, !.code = code, !.analysis_id = analysis_id,
                    !.given_id = analysis_id,
                    !.user_id = user_id, !.model_used = OpenAITag]

Raise(f, e) == [f EXCEPT !.outcome = "raise", !.exc = e]

Return(f, analysis_id, results) ==
  [f EXCEPT !.outcome = "return", !.analysis_id = analysis_id,
            !.ret = [analysis_id |-> analysis_id, results |-> results]]

\* {**analysis_result, "model_used": ..., "documentation_summary": ...}
SqlResults(analysis_result) ==
  PyDict(<< << <<"tables">>, PyList(analysis_result.tables) >>,
            << <<"type">>, PyStr(<<analysis_result.type>>) >>,
            << <<"model_used">>, PyStr(SqlParserTag) >>,
            << <<"documentation_summary">>,
               PyStr(<<"SQL", " ", "schema", " ", "analysis">>) >> >>)

ReturnSql(f) ==
  Return([f EXCEPT !.model_used = SqlParserTag], f.analysis_id,
         SqlResults(ParsedSql[f.code]))

\* A faulty variant of BothFailed: the message without the OpenAI error.
OnlyGeminiError(openai_error, gemini_error) ==
  <<"Both", " ", "OpenAI", " ", "and", " ", "Gemini", " ", "analysis", " ",
    "failed", ".", " ", "Gemini", " ", "error", ":", " ">> \o gemini_error

BothFailed(openai_error, gemini_error) ==
  <<"Both", " ", "OpenAI", " ", "and", " ", "Gemini", " ", "analysis", " ",
    "failed", ".", " ", "OpenAI", " ", "error", ":", " ">> \o openai_error
    \o <<",", " ", "Gemini", " ", "error", ":", " ">> \o gemini_error

\* A faulty variant of TryGemini: model_used is not set after Gemini.
TryGeminiUntagged(f, gemini) ==
  IF gemini.raised
  THEN Raise([f EXCEPT !.log = @ \o << <<"Gemini", "call">>,
                                      <<"Gemini", "raise">> >>,
                       !.gemini_error = gemini.text],
             BothFailed(f.openai_error, gemini.text))
  ELSE [f EXCEPT !.log = @ \o << <<"Gemini", "call">>,
                                 <<"Gemini", "return">> >>,
                 !.gemini_response = gemini.text,
                 !.analysis_result = NormalizedResponse[gemini.text]]

\* The except branch of the OpenAI attempt: the Gemini attempt.
TryGemini(f, gemini) ==
  IF gemini.raised
  THEN Raise([f EXCEPT !.log = @ \o << <<"Gemini", "call">>,
                                      <<"Gemini", "raise">> >>,
                       !.gemini_error = gemini.text],
             BothFailed(f.openai_error, gemini.text))
  ELSE [f EXCEPT !.log = @ \o << <<"Gemini", "call">>,
                                 <<"Gemini", "return">> >>,
                 !.gemini_response = gemini.text,
                 !.analysis_result = NormalizedResponse[gemini.text],
                 !.model_used = GeminiTag]

\* A faulty variant of OpenAIEnded: Gemini is tried whatever OpenAI did.
GeminiAnyway(f, openai, gemini) ==
  TryGemini([f EXCEPT !.log = Append(@, <<"OpenAI", IF openai.raised
                                                    THEN "raise"
                                                    ELSE "return">>),
                      !.openai_error = openai.text], gemini)

\* The try of the OpenAI attempt once it has ended as `openai`.
OpenAIEnded(f, openai, gemini) ==
  IF openai.raised
  THEN TryGemini([f EXCEPT !.log = Append(@, <<"OpenAI", "raise">>),
                           !.openai_error = openai.text], gemini)
  ELSE [f EXCEPT !.log = Append(@, <<"OpenAI", "return">>),
                 !.openai_response = openai.text,
                 !.analysis_result = NormalizedResponse[openai.text]]

\* The OpenAI attempt with a client that cannot be awaited: None has no
\* attribute chat, so nothing is called; the synchronous client is called,
\* and the await of what it returned raises.
CalledUnawaited(f) ==
  IF ai = "none" THEN f ELSE [f EXCEPT !.log = << <<"OpenAI", "call">> >>]

Unawaited(openai) ==
  IF ai = "none" THEN Raises(NoneHasNoChat)
  ELSE IF openai.raised THEN openai
  ELSE Raises(CantAwait)

\* analysis_result['model_used'] = model_used
Stamped(analysis_result, model_used) ==
  PyDict(DictSet(ValOf(analysis_result), <<"model_used">>, PyStr(model_used)))

\* Analysis(...): review_status is 'pending' by default.
NewAnalysis(user_id, results) ==
  [analyst_id |-> user_id, status |-> "draft", review_status |-> "pending",
   reviewer_id |-> 0, review_comments |-> PyNone,
   analysis_results |-> results]

NotFound(analysis_id) ==
  <<"Analysis", " ", "with", " ", "id", " ", ToString(analysis_id), " ",
    "not", " ", "found">>

ErrorStoring(e) ==
  <<"Error", " ", "storing", " ", "analysis", " ", "results", ":", " ">> \o e

ErrorCreating(e) ==
  <<"Error", " ", "creating", " ", "new", " ", "analysis", ":", " ">> \o e

Persisted(f, db) == [frame |-> f, analyses |-> db]

\* store_analysis_results that takes the analysis from its reviewer too.
store_analysis_results_unassigning(f, db, results, commit_ok) ==
  IF f.analysis_id > Len(db)
  THEN Persisted(Raise(f, ErrorStoring(NotFound(f.analysis_id))), db)
  ELSE IF ~commit_ok THEN Persisted(Raise(f, ErrorStoring(DbError)), db)
  ELSE Persisted(Return(f, f.analysis_id, results),
                 [db EXCEPT ![f.analysis_id] =
                    [@ EXCEPT !.analysis_results = results,
                              !.status = "pending_review",
                              !.review_status = "pending",
                              !.reviewer_id = 0]])

\* store_analysis_results, called by analyze_code for frame f.
store_analysis_results(f, db, results, commit_ok) ==
  IF f.analysis_id > Len(db)
  THEN Persisted(Raise(f, ErrorStoring(NotFound(f.analysis_id))), db)
  ELSE IF ~commit_ok THEN Persisted(Raise(f, ErrorStoring(DbError)), db)
  ELSE Persisted(Return(f, f.analysis_id, results),
                 [db EXCEPT ![f.analysis_id] =
                    [@ EXCEPT !.analysis_results = results,
                              !.status = "pending_review",
                              !.review_status = "pending"]])

\* Lines 296-320: a new analysis for the user, or the results stored in the
\* analysis that was named, or neither.
Persist(f, db, results, commit_ok) ==
  IF f.analysis_id = 0 /\ f.user_id # 0
  THEN IF commit_ok
       THEN Persisted(Return(f, Len(db) + 1, results),
                      Append(db, NewAnalysis(f.user_id, results)))
       ELSE Persisted(Raise(f, ErrorCreating(DbError)), db)
  ELSE IF f.analysis_id # 0
  THEN store_analysis_results(f, db, results, commit_ok)
  ELSE Persisted(Return(f, 0, results), db)

ErrorAnalyzing(e) ==
  <<"Error", " ", "analyzing", " ", "code", ":", " ">> \o e

\* Lines 321-324: what is raised is recorded and raised again, wrapped.
Caught(f) ==
  IF f.outcome = "raise"
  THEN [f EXCEPT !.execution_status = "failed", !.error_message = f.exc,
                 !.exc = ErrorAnalyzing(f.exc)]
  ELSE f

\* query_content is code[:1000]: the codes of Codes are shorter.
QueryExecution(f) ==
  [user_id |-> f.user_id, analysis_id |-> f.analysis_id,
   query_content |-> f.code, execution_status |-> f.execution_status,
   error_message |-> f.error_message]

\* The finally of analyze_code: the commit of the QueryExecution fails when
\* analysis_id is None, which the column does not allow, or when the
\* database fails; the row is then rolled back.
Recorded(f, rows, commit_ok) ==
  IF f.user_id # 0 /\ f.analysis_id # 0 /\ commit_ok
  THEN Append(rows, QueryExecution(f))
  ELSE rows

\* An entry of the history of the table analyses.
Commit(op, analysis_id, reviewer_id) ==
  [op |-> op, analysis_id |-> analysis_id, reviewer_id |-> reviewer_id]

\* The history after the call that ended as frame f: a call that returns
\* the result of a provider with an analysis_id has committed a new row
\* (line 307) or the results of the row that was named (line 358).
Trailed(f, history) ==
  IF f.outcome = "return" /\ f.model_used # SqlParserTag /\ f.analysis_id # 0
  THEN Append(history, Commit(IF f.given_id = 0 THEN "create" ELSE "store",
                              f.analysis_id, 0))
  ELSE history

\* The end of a call of analyze_code for request r: frame f, table db.
Finish(r, f, db, record_ok) ==
  /\ req' = [req EXCEPT ![r] = [f EXCEPT !.pc = "done"]]
  /\ analyses' = db
  /\ trail' = Trailed(f, trail)
  /\ executions' = Recorded(f, executions, record_ok)
  /\ UNCHANGED <<ai, google_api_key, review, sqlVars, normVars, manVars>>

FinishPersisted(r, p, record_ok) ==
  Finish(r, Caught(p.frame), p.analyses, record_ok)

\* Lines 293-343 for the frame f that the providers have left.
Proceed(r, f, persist_ok, record_ok) ==
  IF f.outcome = "raise"
  THEN Finish(r, Caught(f), analyses, record_ok)
  ELSE FinishPersisted(r, Persist(f, analyses,
                                  Stamped(f.analysis_result, f.model_used),
                                  persist_ok), record_ok)

\* A faulty variant of AnalyzeSql: the result of parse_sql goes through
\* lines 296-320 as the result of a provider does.
AnalyzeSqlPersisting(r) ==
  /\ req[r].pc = "idle"
  /\ \E code \in SqlCodes, analysis_id \in AnalysisIds, user_id \in UserIds,
        record_ok \in BOOLEAN :
       FinishPersisted(
         r, Persist([Called("analyze_code", code, analysis_id, user_id)
                       EXCEPT !.model_used = SqlParserTag],
                    analyses, SqlResults(ParsedSql[code]), TRUE),
         record_ok)

\* analyze_code on SQL that holds tables: from the call to the return.
AnalyzeSql(r) ==
  /\ req[r].pc = "idle"
  /\ \E code \in SqlCodes, analysis_id \in AnalysisIds, user_id \in UserIds,
        record_ok \in BOOLEAN :
       Finish(r, ReturnSql(Called("analyze_code", code, analysis_id, user_id)),
              analyses, record_ok)

\* analyze_code with an awaitable client, on other code: from the call to
\* the await of the OpenAI call.
CallOpenAI(r) ==
  /\ req[r].pc = "idle"
  /\ ai = "async"
  /\ \E code \in OtherCodes, analysis_id \in AnalysisIds,
        user_id \in UserIds :
       req' = [req EXCEPT ![r] =
                 [Called("analyze_code", code, analysis_id, user_id)
                    EXCEPT !.pc = "await",
                           !.log = << <<"OpenAI", "call">> >>,
                           !.others = [q \in Reqs |-> req[q].pc]]]
  /\ UNCHANGED <<ai, google_api_key, analyses, executions, sqlVars, normVars,
               manVars, revVars>>

\* The frame of request r as the await returns control to it.
Resumed(r) ==
  [req[r] EXCEPT !.interleaved =
                   \E q \in Reqs \ {r} :
                     req[q].pc # req[r].others[q] \/ req[q].pc = "await",
                 !.others = IdleFrame.others]

\* A faulty variant of OpenAIResumes: the response is kept in the service
\* and not in a local, so that a request normalizes what an earlier request
\* has left there.
ResumesWithSharedResponse(r) ==
  /\ req[r].pc = "await"
  /\ \E openai \in OpenAIOutcomes, gemini \in GeminiOutcomes,
        persist_ok \in BOOLEAN, record_ok \in BOOLEAN, q \in Reqs :
       Proceed(r, [OpenAIEnded(Resumed(r), openai, gemini)
                     EXCEPT !.analysis_result =
                              IF req[q].pc = "done" /\ req[q].outcome = "return"
                              THEN req[q].analysis_result ELSE @],
               persist_ok, record_ok)

\* ... and from the end of the OpenAI call to the return or raise.
OpenAIResumes(r) ==
  /\ req[r].pc = "await"
  /\ \E openai \in OpenAIOutcomes, gemini \in GeminiOutcomes,
        persist_ok \in BOOLEAN, record_ok \in BOOLEAN :
       Proceed(r, OpenAIEnded(Resumed(r), openai, gemini), persist_ok,
               record_ok)

\* analyze_code with no client or the synchronous one, on other code: from
\* the call to the return or raise.
AnalyzeUnawaited(r) ==
  /\ req[r].pc = "idle"
  /\ ai # "async"
  /\ \E code \in OtherCodes, analysis_id \in AnalysisIds,
        user_id \in UserIds, openai \in OpenAIOutcomes,
        gemini \in GeminiOutcomes, persist_ok \in BOOLEAN,
        record_ok \in BOOLEAN :
       Proceed(r, OpenAIEnded(CalledUnawaited(Called("analyze_code", code,
                                                     analysis_id, user_id)),
                              Unawaited(openai), gemini),
               persist_ok, record_ok)

\* ast.parse of extract_code_info, on the codes of Codes: of these only an
\* assignment is a Python module.
ast_parse == Cat(<<Word, Star(Space), Lit("="), Star(Space), Word, AtEnd>>)

HasImports(code) == ReAt(ast_parse, code, 1).ok

\* str(e) of code_info['imports'] when the code did not parse, of .choices
\* of the coroutine an awaitable client returns, and of json.loads.
KeyErrorImports == <<"'", "imports", "'">>

CoroutineHasNoChoices ==
  <<"'", "coroutine", "'", " ", "object", " ", "has", " ", "no", " ",
    "attribute", " ", "'", "choices", "'">>

JsonNotStr ==
  <<"the", " ", "JSON", " ", "object", " ", "must", " ", "be", " ", "str",
    ",", " ", "bytes", " ", "or", " ", "bytearray", ",", " ", "not", " ",
    "NoneType">>

\* ... of a text whose first character starts no JSON value.
JsonDecodeError ==
  <<"Expecting", " ", "value", ":", " ", "line", " ", "1", " ", "column",
    " ", "1", " ", "(", "char", " ", "0", ")">>

\* What an attempt of analyze_code_with_llm came to: whether the provider
\* was called, and the error raised or the value returned.
Attempt(called, raised, val) ==
  [called |-> called, raised |-> raised, val |-> val]

LoadedJson(called, parsed, e) ==
  IF parsed.ok THEN Attempt(called, FALSE, parsed.val)
  ELSE Attempt(called, TRUE, e)

analyze_with_openai(code, openai) ==
  IF ~HasImports(code) THEN Attempt(FALSE, TRUE, KeyErrorImports)
  ELSE IF ai = "async" THEN Attempt(FALSE, TRUE, CoroutineHasNoChoices)
  ELSE IF openai.raised THEN Attempt(TRUE, TRUE, openai.text)
  ELSE IF openai.text = None THEN Attempt(TRUE, TRUE, JsonNotStr)
  ELSE LoadedJson(TRUE, json_loads(openai.text), JsonDecodeError)

\* Lines 1105-1109: the text taken out of a fence it starts with.
GeminiCleaned(response_text) ==
  IF At(response_text, 1) # Fence THEN Strip(response_text)
  ELSE IF At(SplitOn(response_text, Fence)[2], 1) = "json"
  THEN Strip(Tail(SplitOn(response_text, Fence)[2]))
  ELSE Strip(SplitOn(response_text, Fence)[2])

analyze_with_gemini(code, gemini) ==
  IF ~HasImports(code) THEN Attempt(FALSE, TRUE, KeyErrorImports)
  ELSE IF gemini.raised THEN Attempt(TRUE, TRUE, gemini.text)
  ELSE IF gemini.text = <<>>
  THEN Attempt(TRUE, TRUE, <<"Empty", " ", "response", " ", "from", " ",
                             "Gemini", " ", "API">>)
  ELSE LoadedJson(TRUE, json_loads(GeminiCleaned(gemini.text)),
                  <<"Invalid", " ", "JSON", " ", "response", " ", "from",
                    " ", "Gemini", " ", "API", ":", " ">> \o JsonDecodeError)

\* The log of an attempt of `provider` that came to a.
Logged(log, provider, a) ==
  log \o (IF a.called THEN << <<provider, "call">> >> ELSE <<>>)
      \o << <<provider, IF a.raised THEN "raise" ELSE "return">> >>

\* One try of analyze_code_with_llm: the value is returned, or the error
\* is appended to errors.
LlmTried(f, provider, a) ==
  IF a.raised
  THEN [f EXCEPT !.log = Logged(@, provider, a),
                 !.openai_error = IF provider = "OpenAI" THEN a.val ELSE @,
                 !.gemini_error = IF provider = "Gemini" THEN a.val ELSE @,
                 !.errors = Append(@, <<provider, " ", "Error", ":", " ">>
                                      \o a.val)]
  ELSE Return([f EXCEPT !.log = Logged(@, provider, a)], 0, a.val)

\* Lines 1149-1153, when nothing was returned before.
LlmFailed(f) ==
  IF f.outcome = "return" THEN f
  ELSE Raise(f, <<"LLM", " ", "analysis", " ", "failed", " ", "with", " ",
                  "both", " ", "services", ":", " ">>
                \o Join(f.errors, <<";", " ">>))

LlmGemini(f, gemini) ==
  IF f.outcome = "return" \/ ~google_api_key THEN LlmFailed(f)
  ELSE LlmFailed(LlmTried(f, "Gemini", analyze_with_gemini(f.code, gemini)))

LlmOpenAI(f, openai) ==
  IF ai = "none" THEN f
  ELSE LlmTried(f, "OpenAI", analyze_with_openai(f.code, openai))

analyze_code_with_llm(f, openai, gemini) ==
  LlmGemini(LlmOpenAI(f, openai), gemini)

\* analyze_code_with_llm, from the call to the return or raise: its calls
\* of the providers are synchronous.
AnalyzeCodeWithLlm(r) ==
  /\ req[r].pc = "idle"
  /\ \E code \in Codes, openai \in OpenAIOutcomes, gemini \in GeminiOutcomes :
       req' = [req EXCEPT ![r] =
                 [analyze_code_with_llm(
                    Called("analyze_code_with_llm", code, 0, 0), openai,
                    gemini) EXCEPT !.pc = "done"]]
  /\ UNCHANGED <<ai, google_api_key, analyses, executions, sqlVars, normVars,
               manVars, revVars>>

\* The table analyses holds one analysis when the service starts.
Init ==
  /\ ai \in AiKinds
  /\ google_api_key \in BOOLEAN
  /\ analyses = <<NewAnalysis(1, PyNone)>>
  /\ executions = <<>>
  /\ req = [r \in Reqs |-> IdleFrame]
  /\ review = NoReview
  /\ trail = <<>>
  /\ SqlIdle
  /\ NormIdle
  /\ ManIdle

Next ==
  \E r \in Reqs :
    \/ AnalyzeSql(r)
    \/ CallOpenAI(r)
    \/ OpenAIResumes(r)
    \/ AnalyzeUnawaited(r)
    \/ AnalyzeCodeWithLlm(r)

Spec == Init /\ [][Next]_vars

----------------------------------------------------------------------------
(* The review workflow: submit_for_review (lines 363-379) and              *)
(* submit_review (lines 381-402), as the routes of api/routes/analysis.py  *)
(* (lines 103-129) call them.  Neither awaits, so each call is one step.   *)
(* The routes declare analysis_id and reviewer_id as int, so neither is    *)
(* None; comments is one dict.                                             *)

MaxReviews == 3

\* The requests that call analyze_code while analyses are reviewed.
ReviewReqs == {1}

ReviewIds == 1..MaxReqs

ReviewerIds == {1, 2}

Comments == PyDict(<< << <<"note">>, PyStr(<<"ok">>) >> >>)

\* The call of a review operation, before it ends.
ReviewCalled(op, analysis_id, reviewer_id, approved) ==
  [n |-> review.n + 1, op |-> op, analysis_id |-> analysis_id,
   reviewer_id |-> reviewer_id, approved |-> approved, outcome |-> "return",
   exc |-> None]

\* What a review operation leaves: its call and the table analyses.
Reviewed(call, db) == [call |-> call, analyses |-> db]

ErrorSubmittingForReview(e) ==
  <<"Error", " ", "submitting", " ", "for", " ", "review", ":", " ">> \o e

ErrorSubmittingReview(e) ==
  <<"Error", " ", "submitting", " ", "review", ":", " ">> \o e

NotAssigned(analysis_id, reviewer_id) ==
  NotFound(analysis_id)
    \o <<" ", "or", " ", "not", " ", "assigned", " ", "to", " ", "reviewer",
         " ", ToString(reviewer_id)>>

\* submit_for_review without lines 369-370: a call for an analysis that is
\* not found changes nothing and returns.
submit_for_review_unchecked(call, db, commit_ok) ==
  IF call.analysis_id > Len(db) THEN Reviewed(call, db)
  ELSE IF ~commit_ok
  THEN Reviewed(Raise(call, ErrorSubmittingForReview(DbError)), db)
  ELSE Reviewed(call,
                [db EXCEPT ![call.analysis_id] =
                   [@ EXCEPT !.reviewer_id = call.reviewer_id,
                             !.review_status = "in_review",
                             !.status = "pending_review"]])

\* submit_for_review without line 374: the status is left as it was.
submit_for_review_keeping_status(call, db, commit_ok) ==
  IF call.analysis_id > Len(db)
  THEN Reviewed(Raise(call, ErrorSubmittingForReview(
                              NotFound(call.analysis_id))), db)
  ELSE IF ~commit_ok
  THEN Reviewed(Raise(call, ErrorSubmittingForReview(DbError)), db)
  ELSE Reviewed(call,
                [db EXCEPT ![call.analysis_id] =
                   [@ EXCEPT !.reviewer_id = call.reviewer_id,
                             !.review_status = "in_review"]])

\* submit_for_review: the analysis is assigned to the reviewer.
submit_for_review(call, db, commit_ok) ==
  IF call.analysis_id > Len(db)
  THEN Reviewed(Raise(call, ErrorSubmittingForReview(
                              NotFound(call.analysis_id))), db)
  ELSE IF ~commit_ok
  THEN Reviewed(Raise(call, ErrorSubmittingForReview(DbError)), db)
  ELSE Reviewed(call,
                [db EXCEPT ![call.analysis_id] =
                   [@ EXCEPT !.reviewer_id = call.reviewer_id,
                             !.review_status = "in_review",
                             !.status = "pending_review"]])

\* The query of submit_review: the analysis of that id and that reviewer.
AssignedTo(db, analysis_id, reviewer_id) ==
  /\ analysis_id <= Len(db)
  /\ db[analysis_id].reviewer_id = reviewer_id

\* submit_review without line 388: the query asks for the id alone.
submit_review_by_anyone(call, db, commit_ok) ==
  IF call.analysis_id > Len(db)
  THEN Reviewed(Raise(call, ErrorSubmittingReview(
                              NotAssigned(call.analysis_id,
                                          call.reviewer_id))), db)
  ELSE IF ~commit_ok
  THEN Reviewed(Raise(call, ErrorSubmittingReview(DbError)), db)
  ELSE Reviewed(call,
                [db EXCEPT ![call.analysis_id] =
                   [@ EXCEPT !.review_comments = Comments,
                             !.review_status = "reviewed",
                             !.status = IF call.approved THEN "approved"
                                        ELSE "rejected"]])

\* submit_review: the verdict of the reviewer the analysis is assigned to.
submit_review(call, db, commit_ok) ==
  IF ~AssignedTo(db, call.analysis_id, call.reviewer_id)
  THEN Reviewed(Raise(call, ErrorSubmittingReview(
                              NotAssigned(call.analysis_id,
                                          call.reviewer_id))), db)
  ELSE IF ~commit_ok
  THEN Reviewed(Raise(call, ErrorSubmittingReview(DbError)), db)
  ELSE Reviewed(call,
                [db EXCEPT ![call.analysis_id] =
                   [@ EXCEPT !.review_comments = Comments,
                             !.review_status = "reviewed",
                             !.status = IF call.approved THEN "approved"
                                        ELSE "rejected"]])

\* The history after a review operation: its commit, if it returned.
ReviewTrailed(call, history) ==
  IF call.outcome = "return"
  THEN Append(history, Commit(call.op, call.analysis_id, call.reviewer_id))
  ELSE history

\* The end of a review operation.
FinishReview(p) ==
  /\ review' = p.call
  /\ analyses' = p.analyses
  /\ trail' = ReviewTrailed(p.call, trail)
  /\ UNCHANGED <<ai, google_api_key, executions, req, sqlVars, normVars,
               manVars>>

SubmitForReview ==
  /\ review.n < MaxReviews
  /\ \E analysis_id \in ReviewIds, reviewer_id \in ReviewerIds,
        commit_ok \in BOOLEAN :
       FinishReview(submit_for_review(
                      ReviewCalled("submit_for_review", analysis_id,
                                   reviewer_id, FALSE),
                      analyses, commit_ok))

SubmitReview ==
  /\ review.n < MaxReviews
  /\ \E analysis_id \in ReviewIds, reviewer_id \in ReviewerIds,
        approved \in BOOLEAN, commit_ok \in BOOLEAN :
       FinishReview(submit_review(
                      ReviewCalled("submit_review", analysis_id, reviewer_id,
                                   approved),
                      analyses, commit_ok))

ReviewNext ==
  \/ \E r \in ReviewReqs :
       \/ AnalyzeSql(r)
       \/ CallOpenAI(r)
       \/ OpenAIResumes(r)
       \/ AnalyzeUnawaited(r)
  \/ SubmitForReview
  \/ SubmitReview

SpecReview == Init /\ [][ReviewNext]_vars

----------------------------------------------------------------------------
(* _get_ai_relationships (lines 786-806), the lookup that                  *)
(* create_data_dictionary makes in the result of an analysis for each      *)
(* column: it ends with a value or with the KeyError of the key that a     *)
(* relationship lacks.                                                     *)

Looked(raised, val) == [raised |-> raised, val |-> val]

\* rel[key] raises when the relationship has no such key.
Lacks(rel, key) == ~HasKey(ValOf(rel), key)

\* The first of `keys` that rel lacks, read in this order.
FirstLacking(rel, keys) ==
  keys[CHOOSE n \in 1..Len(keys) :
         Lacks(rel, keys[n]) /\ \A j \in 1..(n - 1) : ~Lacks(rel, keys[j])]

LacksOneOf(rel, keys) == \E n \in 1..Len(keys) : Lacks(rel, keys[n])

\* rel[a] == table and rel[b] == column
Holds(rel, a, b, table, column) ==
  Field(rel, a) = table /\ Field(rel, b) = column

\* The keys that one turn of the loop reads of rel, in the order it reads
\* them, up to the first that rel lacks.
KeysRead(rel, table, column) ==
  LET from == <<"from_table">>
      ffld == <<"from_field">>
      to == <<"to_table">>
      tfld == <<"to_field">>
      type == <<"type">>
  IN IF Lacks(rel, from) THEN <<from>>
     ELSE IF Field(rel, from) = table /\ Lacks(rel, ffld) THEN <<from, ffld>>
     ELSE IF Holds(rel, from, ffld, table, column) THEN <<type, to, tfld>>
     ELSE IF Lacks(rel, to) THEN <<to>>
     ELSE IF Field(rel, to) = table /\ Lacks(rel, tfld) THEN <<to, tfld>>
     ELSE IF Holds(rel, to, tfld, table, column) THEN <<type, from, ffld>>
     ELSE <<>>

\* What one turn appends to relationships, when it reads no key rel lacks.
LookedUp(rel, table, column) ==
  IF Holds(rel, <<"from_table">>, <<"from_field">>, table, column)
  THEN << PyDict(<< << <<"type">>, Field(rel, <<"type">>) >>,
                    << <<"target_table">>, Field(rel, <<"to_table">>) >>,
                    << <<"target_field">>, Field(rel, <<"to_field">>) >> >>) >>
  ELSE IF Holds(rel, <<"to_table">>, <<"to_field">>, table, column)
  THEN << PyDict(<< << <<"type">>, Field(rel, <<"type">>) >>,
                    << <<"source_table">>, Field(rel, <<"from_table">>) >>,
                    << <<"source_field">>, Field(rel, <<"from_field">>) >> >>) >>
  ELSE <<>>

KeyError(key) == <<"'">> \o key \o <<"'">>

\* The loop over rels: the first turn that reads a key its relationship
\* lacks raises.
LookedUpAll(rels, table, column) ==
  IF \E k \in 1..Len(rels) : LacksOneOf(rels[k], KeysRead(rels[k], table,
                                                             column))
  THEN LET k == CHOOSE i \in 1..Len(rels) :
                  /\ LacksOneOf(rels[i], KeysRead(rels[i], table, column))
                  /\ \A j \in 1..(i - 1) :
                       ~LacksOneOf(rels[j], KeysRead(rels[j], table, column))
       IN Looked(TRUE, KeyError(FirstLacking(rels[k],
                                             KeysRead(rels[k], table,
                                                      column))))
  ELSE LET found == Concat([k \in 1..Len(rels) |->
                              LookedUp(rels[k], table, column)])
       IN Looked(FALSE,
                 IF found = <<>> THEN PyNone
                 ELSE PyDict(<< << <<"relationships">>, PyList(found) >> >>))

get_ai_relationships(ai_analysis, table, column) ==
  IF ValOf(ai_analysis) = <<>>
       \/ ~HasKey(ValOf(ai_analysis), <<"relationships">>)
  THEN Looked(FALSE, PyNone)
  ELSE LookedUpAll(ValOf(Field(ai_analysis, <<"relationships">>)), table,
                   column)

----------------------------------------------------------------------------
(* Claims about parse_sql, under SpecSql.                                  *)

Returned == sqlPc = "return"

IsColumnDef(d) == d.kind = "column"

IsFkDef(d) == d.kind = "fk"

\* The names of the columns a statement declares, in declaration order.
DeclaredColumns(st) ==
  LET cs == SelectSeq(st.defs, IsColumnDef)
  IN [k \in 1..Len(cs) |-> cs[k].cols[1]]

FieldNames(t) == [k \in 1..Len(t.fields) |-> t.fields[k].name]

InSeq(x, xs) == \E k \in 1..Len(xs) : xs[k] = x

\* The table the statement of C1 stands for.
IsTableC1(t) ==
  /\ t.name = <<"t">>
  /\ FieldNames(t) = << <<"id">>, <<"name">> >>
  /\ InSeq(<<"PRIMARY", " ", "KEY">>, t.fields[1].constraints)
  /\ InSeq(<<"NOT", " ", "NULL">>, t.fields[2].constraints)

HasTableC1 == \E k \in 1..Len(sqlOut.tables) : IsTableC1(sqlOut.tables[k])

\* C1: every text that contains the statement
\* CREATE TABLE t (id INTEGER PRIMARY KEY, name TEXT NOT NULL) yields a table
\* t with the columns id (PRIMARY KEY) and name (NOT NULL), in this order.
C1_EveryText ==
  (Returned /\ InSeq(StmtC1, sqlCase.stmts)) => HasTableC1

FkRelationship(st, d) ==
  [type |-> "foreign_key", from_table |-> st.name, from_fields |-> d.cols,
   to_table |-> d.ref, to_fields |-> d.refcols]

\* C2: every FOREIGN KEY (cols) REFERENCES table[(cols)] definition of a
\* statement gives its table a foreign_key relationship from the listed
\* columns to the referenced table and columns (id when none are listed).
C2_ForeignKeyExtracted ==
  (Returned /\ sqlCase.pre = <<>>) =>
    \A k \in 1..Len(sqlCase.stmts) :
      \A j \in 1..Len(sqlCase.stmts[k].defs) :
        sqlCase.stmts[k].defs[j].kind = "fk" =>
          /\ k <= Len(sqlOut.tables)
          /\ InSeq(FkRelationship(sqlCase.stmts[k], sqlCase.stmts[k].defs[j]),
                   sqlOut.tables[k].relationships)

\* C3: a statement with a comma inside a parenthesized DEFAULT or CHECK
\* clause is split into as many fragments as it has definitions.
C3_FragmentPerDefinition ==
  (Returned /\ sqlCase.pre = <<>>) =>
    \A k \in 1..Len(sqlCase.stmts) :
      (InSeq(DefDefaultParen, sqlCase.stmts[k].defs)
         \/ InSeq(DefCheckIn, sqlCase.stmts[k].defs))
      => /\ k <= Len(FragmentsOf(sqlIn))
         /\ Len(FragmentsOf(sqlIn)[k]) = Len(sqlCase.stmts[k].defs)

\* C4: several statements give one table per statement, in source order,
\* each with the columns and relationships of its own statement; the
\* users/posts input gives users with 2 columns and posts with 2 columns and
\* one relationship to users.id.
C4_TablePerStatement ==
  (Returned /\ sqlCase.pre = <<>> /\ Len(sqlCase.stmts) >= 2) =>
    /\ Len(sqlOut.tables) = Len(sqlCase.stmts)
    /\ \A k \in 1..Len(sqlCase.stmts) :
         /\ sqlOut.tables[k].name = sqlCase.stmts[k].name
         /\ FieldNames(sqlOut.tables[k]) = DeclaredColumns(sqlCase.stmts[k])
         /\ Len(sqlOut.tables[k].relationships)
              = Len(SelectSeq(sqlCase.stmts[k].defs, IsFkDef))
    /\ sqlCase.stmts = <<StmtUsers, StmtPosts>> =>
         sqlOut.tables[2].relationships = <<FkRelationship(StmtPosts, DefFk)>>

\* The statement t with these definitions, as parse_sql is given it.
StmtOf(defs) == Stmt(Header(<<"t">>), <<"t">>, defs, <<")">>)

OnlyStmt(defs) == sqlCase = Case(<<>>, <<StmtOf(defs)>>, <<>>)

\* Can a name and a type both be taken from the fragment: a word, quoted
\* or not, white space, and a word?
HasNameAndType(d) ==
  LET w == IF At(d, 1) \in NameQuotes THEN 2 ELSE 1
      e == IF At(d, w + 1) \in NameQuotes THEN w + 2 ELSE w + 1
      t == SkipWs(d, e)
  IN /\ w <= Len(d) /\ IsWord(d[w])
     /\ At(d, e) \in WS
     /\ t <= Len(d) /\ IsWord(d[t])

IsColumnFragment(d) ==
  Strip(d) # <<>> /\ ~IsForeignKeyDef(d) /\ HasNameAndType(d)

\* The fields of a table are named and typed, and as many as the fragments
\* of its statement that give a name and a type.
NamedAndTyped(fields, frags) ==
  /\ \A j \in 1..Len(fields) :
       fields[j].name # <<>> /\ fields[j].type # <<>>
  /\ Len(fields)
       = Cardinality({n \in 1..Len(frags) : IsColumnFragment(frags[n])})

AllNamedAndTyped(tables, frags) ==
  \A k \in 1..Len(tables) : NamedAndTyped(tables[k].fields, frags[k])

\* C17: every column of every table parse_sql returns has a non-empty name
\* and a non-empty type; a fragment from which a name and a type cannot
\* both be taken adds no column.
C17_ColumnsNamedAndTyped ==
  Returned => AllNamedAndTyped(sqlOut.tables, FragmentsOf(sqlIn))

\* A fragment without a type, then the column id: two fragments, the one
\* field id.
C17_Witness ==
  /\ Returned
  /\ OnlyStmt(<<DefNoType, DefId>>)
  /\ FragmentsOf(sqlIn) = << << DefNoType.text, DefId.text >> >>
  /\ Len(sqlOut.tables) = 1
  /\ FieldNames(sqlOut.tables[1]) = << <<"id">> >>
  /\ sqlOut.tables[1].fields[1].type = <<"INTEGER">>

\* The names of the columns that the definitions declare.
Declared(defs) ==
  {defs[j].cols[1] : j \in {i \in 1..Len(defs) : IsColumnDef(defs[i])}}

\* C18: a table-level constraint without the FOREIGN KEY keyword, such as
\* a composite PRIMARY KEY (a, b), adds neither a column nor a relationship
\* to its table: the fields are declared columns, and there are no more
\* relationships than FOREIGN KEY definitions.
C18_TableConstraintDropped ==
  (Returned /\ sqlCase.pre = <<>>) =>
    \A k \in 1..Len(sqlCase.stmts) :
      (/\ InSeq(DefCompositePk, sqlCase.stmts[k].defs)
       /\ k <= Len(sqlOut.tables))
      => /\ \A j \in 1..Len(sqlOut.tables[k].fields) :
              sqlOut.tables[k].fields[j].name
                \in Declared(sqlCase.stmts[k].defs)
         /\ Len(sqlOut.tables[k].relationships)
              <= Len(SelectSeq(sqlCase.stmts[k].defs, IsFkDef))

Quotes == {"'", "\""}

RECURSIVE OpenQuoteAfter(_, _)
\* The quote character that is open after the first i characters of the
\* text, "" when none is: a quote is opened by either quote character and
\* closed by the same one.
OpenQuoteAfter(text, i) ==
  IF i = 0 THEN ""
  ELSE IF OpenQuoteAfter(text, i - 1) = ""
  THEN (IF text[i] \in Quotes THEN text[i] ELSE "")
  ELSE IF text[i] = OpenQuoteAfter(text, i - 1) THEN ""
  ELSE OpenQuoteAfter(text, i - 1)

\* The positions before i that hold the parenthesis c outside a string.
ParensBefore(text, i, c) ==
  {k \in 1..(i - 1) : text[k] = c /\ OpenQuoteAfter(text, k - 1) = ""}

DepthAt(text, i) ==
  Cardinality(ParensBefore(text, i, "("))
    - Cardinality(ParensBefore(text, i, ")"))

\* The commas at paren depth 0 with no quote open.
SplitCommas(text) ==
  {i \in 1..Len(text) :
     text[i] = "," /\ OpenQuoteAfter(text, i - 1) = "" /\ DepthAt(text, i) = 0}

\* Cut n of m: the n-th position of S, 0 before the first, the end of the
\* text after the last.
CutAt(text, S, n) ==
  IF n = 0 THEN 0
  ELSE IF n > Cardinality(S) THEN Len(text) + 1
  ELSE CHOOSE i \in S : Cardinality({j \in S : j < i}) = n - 1

\* The text cut at the positions of S, each piece stripped; what remains
\* after the last cut is the final piece, unless nothing remains.
PiecesAt(text, S) ==
  [n \in 1..(IF CutAt(text, S, Cardinality(S)) = Len(text)
              THEN Cardinality(S) ELSE Cardinality(S) + 1) |->
     Strip(SubSeq(text, CutAt(text, S, n - 1) + 1, CutAt(text, S, n) - 1))]

SplitAsSpecified(text, st, S) ==
  /\ st.pos = Len(text) + 1
  /\ st.splits = S
  /\ st.col_defs = PiecesAt(text, S)

AllSplitAsSpecified(ms) ==
  \A k \in 1..Len(ms) :
    SplitAsSpecified(ms[k].body, SplitState(ms[k].body),
                     SplitCommas(ms[k].body))

\* C19: in the splitter scan, for every body, a comma ends the fragment if
\* and only if the paren depth is 0 and no quote is open at it, a quote
\* being closed only by the character that opened it; with a quote or a
\* parenthesis left open the scan reaches the end of the body and what
\* remains is the final fragment.
C19_SplitAtTopLevelCommas ==
  Returned => AllSplitAsSpecified(FindCreateTables(sqlIn, 1))

\* A body that ends inside a string with a comma in it, after a column: the
\* first comma splits, the one in the string does not.
C19_Witness ==
  /\ Returned
  /\ OnlyStmt(<<DefId, DefOpenQuote>>)
  /\ FragmentsOf(sqlIn)
       = << << DefId.text,
               <<"o", " ", "TEXT", " ", "DEFAULT", " ", "'", "a", ",", " ",
                 "b">> >> >>
  /\ FieldNames(sqlOut.tables[1]) = << <<"id">>, <<"o">> >>

\* The literal default text of the definitions that have a DEFAULT clause,
\* <<>> for the others.
DefaultOf(d) ==
  IF d = DefDefaultParen THEN <<"(", "a", ",", "b", ")">>
  ELSE IF d = DefDefaultZero THEN <<"0">>
  ELSE IF d = DefQuoted THEN <<"'", "a", ",", "b", "'">>
  ELSE <<>>

\* C20: a column definition with a DEFAULT clause gets the constraint tag
\* DEFAULT followed by the complete default text of the clause: the whole
\* value, or the whole parenthesized expression (DEFAULT (a,b)).
C20_DefaultTagComplete ==
  (Returned /\ sqlCase.pre = <<>>) =>
    \A k \in 1..Len(sqlCase.stmts) : \A j \in 1..Len(sqlCase.stmts[k].defs) :
      (DefaultOf(sqlCase.stmts[k].defs[j]) # <<>> /\ k <= Len(sqlOut.tables))
      => \A n \in 1..Len(sqlOut.tables[k].fields) :
           sqlOut.tables[k].fields[n].name = sqlCase.stmts[k].defs[j].cols[1]
           => InSeq(<<"DEFAULT", " ">> \o DefaultOf(sqlCase.stmts[k].defs[j]),
                    sqlOut.tables[k].fields[n].constraints)

\* The parenthesis that opens the body of the match m of s, and the first
\* closing parenthesis after it.
BodyOpen(s, m) ==
  CHOOSE o \in m.start..m.end :
    s[o] = "(" /\ \A k \in m.start..(o - 1) : s[k] # "("

FirstClose(s, m) == IndexFrom(s, BodyOpen(s, m) + 1, ")")

\* The body of m is the text up to that parenthesis, the splitter never
\* counts below zero on it, and the table of m is the table of the text of
\* m up to that parenthesis.
CutAtFirstClose(s, m, table) ==
  /\ m.body = SubSeq(s, BodyOpen(s, m) + 1, FirstClose(s, m) - 1)
  /\ ~InSeq(")", m.body)
  /\ SplitState(m.body).min_paren >= 0
  /\ SplitState(m.body).paren_count >= 0
  /\ table = parse_sql(SubSeq(s, m.start, FirstClose(s, m))).tables[1]

AllCutAtFirstClose(s, ms, tables) ==
  /\ Len(tables) = Len(ms)
  /\ \A k \in 1..Len(ms) : CutAtFirstClose(s, ms[k], tables[k])

\* The position in the text of statement st at which definition j starts.
DefStart(st, j) ==
  Len(st.hdr)
    + Len(Concat([i \in 1..(j - 1) |-> st.defs[i].text \o <<",", " ">>])) + 1

\* The definitions of st that start before its first closing parenthesis.
DefsBeforeClose(st) ==
  {j \in 1..Len(st.defs) :
     DefStart(st, j) < IndexFrom(StmtText(st), 1, ")")}

\* C25: the body that parse_sql splits is the text between the opening
\* parenthesis of a match and the first closing parenthesis after it: it
\* holds no closing parenthesis, the paren depth of the splitter is never
\* negative, and the definitions after that parenthesis add no field and no
\* relationship to the table.
C25_BodyEndsAtFirstClose ==
  Returned =>
    /\ AllCutAtFirstClose(sqlIn, FindCreateTables(sqlIn, 1), sqlOut.tables)
    /\ (sqlCase.pre = <<>> /\ Len(sqlOut.tables) >= 1) =>
         Len(sqlOut.tables[1].fields) + Len(sqlOut.tables[1].relationships)
           <= Cardinality(DefsBeforeClose(sqlCase.stmts[1]))

\* The statement a (x INT DEFAULT (a,b), name TEXT NOT NULL) was parsed: its
\* body ends inside the first definition, and the table holds x alone.
C25_Witness ==
  /\ Returned
  /\ sqlCase = Case(<<>>, <<StmtDefault>>, <<>>)
  /\ DefsBeforeClose(StmtDefault) = {1}
  /\ FindCreateTables(sqlIn, 1)[1].body
       = <<"x", " ", "INT", " ", "DEFAULT", " ", "(", "a", ",", "b">>
  /\ FieldNames(sqlOut.tables[1]) = << <<"x">> >>

----------------------------------------------------------------------------
(* Claims about parse_sql_manually, under SpecManual.                      *)

DefsOfKind(defs, kind) == SelectSeq(defs, LAMBDA d : d.kind = kind)

\* The relationships of the FOREIGN KEY (c) REFERENCES t(c2) constraints of
\* a statement, in declaration order.
DeclaredForeignKeys(st) ==
  [j \in 1..Len(DefsOfKind(st.defs, "fk")) |->
     [from_table |-> st.name,
      from_column |-> DefsOfKind(st.defs, "fk")[j].cols[1],
      to_table |-> DefsOfKind(st.defs, "fk")[j].ref,
      to_column |-> DefsOfKind(st.defs, "fk")[j].refcols[1]]]

ColumnNames(table) == [j \in 1..Len(table.columns) |-> table.columns[j].name]

Ends(rel) ==
  [from_table |-> rel.from_table, from_column |-> rel.from_column,
   to_table |-> rel.to_table, to_column |-> rel.to_column]

\* C24: for the statements 'CREATE TABLE name (...);' of the input, the
\* result holds one table for each statement, with one column for each
\* column definition, in declaration order, and no column for a FOREIGN KEY
\* constraint, and one relationship for each FOREIGN KEY (c) REFERENCES
\* t(c2) constraint, from the table and c to t and c2.
C24_ManualColumnsAndForeignKeys ==
  manPc = "return" =>
    /\ Len(manOut.tables) = Len(manCase.stmts)
    /\ \A k \in 1..Len(manOut.tables) :
         /\ manOut.tables[k].name = manCase.stmts[k].name
         /\ ColumnNames(manOut.tables[k]) = DeclaredColumns(manCase.stmts[k])
    /\ [j \in 1..Len(manOut.relationships) |-> Ends(manOut.relationships[j])]
         = Concat([k \in 1..Len(manCase.stmts) |->
                     DeclaredForeignKeys(manCase.stmts[k])])

----------------------------------------------------------------------------
(* Claims about the orchestrator, under Spec.                              *)

IsAnalyzeCode(r) == req[r].op = "analyze_code"

Ended(r) == req[r].pc = "done"

Providers == {"OpenAI", "Gemini"}

\* Did this happen with the provider in the call of request r?
Logs(r, provider, event) == InSeq(<<provider, event>>, req[r].log)

\* How often the provider was called in the call of request r.
Calls(r, provider) ==
  Cardinality({i \in 1..Len(req[r].log) : req[r].log[i] = <<provider, "call">>})

\* The codes that match the SQL keyword test and for which parse_sql
\* returns a table.
CodesWithTables ==
  {code \in Codes : LooksLikeSql(code) /\ Len(parse_sql(code).tables) > 0}

SqlWithTables(code) == code \in CodesWithTables

Contains(msg, part) ==
  \E i \in 1..(Len(msg) - Len(part) + 1) :
    SubSeq(msg, i, i + Len(part) - 1) = part

\* A normalized result with the tag as its model_used.
Tagged(result, tag) ==
  PyDict(DictSet(ValOf(result), <<"model_used">>, PyStr(tag)))

\* C5: a call of analyze_code on code that matches the SQL keyword test and
\* for which parse_sql returns at least one table, also one without fields,
\* calls no provider at any point, and returns the tables of parse_sql with
\* the SQL parser as model_used.
C5_SqlPathCallsNoProvider ==
  \A r \in Reqs :
    (IsAnalyzeCode(r) /\ SqlWithTables(req[r].code)) =>
      /\ req[r].log = <<>>
      /\ Ended(r)
      /\ req[r].outcome = "return"
      /\ Field(req[r].ret.results, <<"model_used">>) = PyStr(SqlParserTag)
      /\ Field(req[r].ret.results, <<"tables">>)
           = PyList(ParsedSql[req[r].code].tables)

\* The statement without columns was analyzed: one table, no fields, no
\* provider.
C5_Witness ==
  \E r \in Reqs :
    /\ IsAnalyzeCode(r) /\ Ended(r) /\ req[r].code = CodeNoFields
    /\ req[r].outcome = "return" /\ req[r].log = <<>>
    /\ Field(req[r].ret.results, <<"model_used">>) = PyStr(SqlParserTag)
    /\ Field(req[r].ret.results, <<"tables">>)
         = PyList(<<[name |-> <<"t">>, fields |-> <<>>,
                     relationships |-> <<>>]>>)

\* C6: in a call of analyze_code on code without SQL keywords or for which
\* parse_sql returns no table, the OpenAI attempt is the first, Gemini is
\* called only after the OpenAI attempt has raised (and then it is), and no
\* provider is called more than once in one call.
C6_OpenAIThenGemini ==
  \A r \in Reqs :
    /\ \A p \in Providers : Calls(r, p) <= 1
    /\ (IsAnalyzeCode(r) /\ ~SqlWithTables(req[r].code)) =>
         /\ \A i \in 1..Len(req[r].log) :
              req[r].log[i][1] = "Gemini" =>
                \E j \in 1..(i - 1) : req[r].log[j] = <<"OpenAI", "raise">>
         /\ Ended(r) =>
              /\ req[r].log # <<>>
              /\ req[r].log[1][1] = "OpenAI"
              /\ Logs(r, "OpenAI", "raise") <=> Logs(r, "Gemini", "call")

\* With the synchronous client, on a query for which parse_sql returns no
\* table: OpenAI was called and the attempt raised, then Gemini was called.
C6_Witness ==
  \E r \in Reqs :
    /\ IsAnalyzeCode(r) /\ Ended(r) /\ ai = "sync"
    /\ req[r].code = CodeSelect
    /\ req[r].log = << <<"OpenAI", "call">>, <<"OpenAI", "raise">>,
                       <<"Gemini", "call">>, <<"Gemini", "return">> >>

\* C7: a call on code that does not take the SQL path, in which no provider
\* returned, raises: nothing is returned, and the message holds the message
\* of every provider attempt that raised; in analyze_code these are the
\* OpenAI attempt and the Gemini attempt.
C7_AggregatedError ==
  \A r \in Reqs :
    (/\ Ended(r)
     /\ ~(IsAnalyzeCode(r) /\ SqlWithTables(req[r].code))
     /\ \A p \in Providers : ~Logs(r, p, "return"))
    => /\ req[r].outcome = "raise"
       /\ req[r].ret.results = PyNone
       /\ IsAnalyzeCode(r) =>
            Logs(r, "OpenAI", "raise") /\ Logs(r, "Gemini", "raise")
       /\ Logs(r, "OpenAI", "raise") =>
            req[r].openai_error # <<>> /\ Contains(req[r].exc, req[r].openai_error)
       /\ Logs(r, "Gemini", "raise") =>
            req[r].gemini_error # <<>> /\ Contains(req[r].exc, req[r].gemini_error)

\* With the synchronous client, on code that is no SQL: the OpenAI call
\* raised a connection error, Gemini refused the key, and analyze_code
\* raised one error that holds both messages.
C7_Witness ==
  \E r \in Reqs :
    /\ IsAnalyzeCode(r) /\ Ended(r) /\ ai = "sync"
    /\ req[r].code = CodePython
    /\ req[r].outcome = "raise"
    /\ req[r].openai_error = ConnectionError
    /\ req[r].gemini_error = InvalidKey
    /\ Contains(req[r].exc, ConnectionError)
    /\ Contains(req[r].exc, InvalidKey)

\* C8: the model_used of every result analyze_code returns names what made
\* the result: the SQL parser only when no provider was called and the
\* tables are those of parse_sql; OpenAI only when the OpenAI attempt
\* returned and the result is its normalized response; Gemini only when the
\* OpenAI attempt raised, Gemini returned and the result is its normalized
\* response.
C8_ModelUsedNamesStrategy ==
  \A r \in Reqs :
    (IsAnalyzeCode(r) /\ Ended(r) /\ req[r].outcome = "return") =>
      \/ /\ Field(req[r].ret.results, <<"model_used">>) = PyStr(SqlParserTag)
         /\ req[r].log = <<>>
         /\ SqlWithTables(req[r].code)
         /\ Field(req[r].ret.results, <<"tables">>)
              = PyList(ParsedSql[req[r].code].tables)
      \/ /\ Field(req[r].ret.results, <<"model_used">>) = PyStr(OpenAITag)
         /\ Logs(r, "OpenAI", "return")
         /\ ~Logs(r, "Gemini", "call")
         /\ req[r].ret.results
              = Tagged(NormalizedResponse[req[r].openai_response], OpenAITag)
      \/ /\ Field(req[r].ret.results, <<"model_used">>) = PyStr(GeminiTag)
         /\ Logs(r, "OpenAI", "raise")
         /\ Logs(r, "Gemini", "return")
         /\ req[r].ret.results
              = Tagged(NormalizedResponse[req[r].gemini_response], GeminiTag)

\* With the synchronous client: the await of the OpenAI response raised, and
\* the result returned is the normalized JSON of Gemini, tagged Gemini.
C8_Witness ==
  \E r \in Reqs :
    /\ IsAnalyzeCode(r) /\ Ended(r) /\ ai = "sync"
    /\ req[r].outcome = "return"
    /\ req[r].openai_error = CantAwait
    /\ req[r].gemini_response = GeminiJson
    /\ Field(req[r].ret.results, <<"model_used">>) = PyStr(GeminiTag)
    /\ Field(req[r].ret.results, SummaryKey) = PyStr(<<"a", " ", "b">>)

AnalyzeCodeReturned(r) == IsAnalyzeCode(r) /\ Ended(r) /\ req[r].outcome = "return"

\* C13: every result analyze_code returns, on the SQL path and on each
\* provider path, holds the seven canonical fields and model_used.
C13_ResultFullyPopulated ==
  \A r \in Reqs :
    AnalyzeCodeReturned(r) =>
      /\ \A n \in 1..7 : HasKey(ValOf(req[r].ret.results), CanonicalKeys[n])
      /\ HasKey(ValOf(req[r].ret.results), <<"model_used">>)

\* A strategy produced a result in the call of request r: the SQL parser
\* found tables, or a provider returned a response, which was normalized.
Produced(r) ==
  \/ SqlWithTables(req[r].code)
  \/ \E provider \in Providers : Logs(r, provider, "return")

\* C14: analyze_code raises only when every strategy failed; when the SQL
\* parser or a provider produced a result the call returns it, whatever
\* analysis_id and user_id are and whatever happens while the result is
\* stored or the execution is recorded.
C14_RaisesOnlyWhenAllFailed ==
  \A r \in Reqs :
    (IsAnalyzeCode(r) /\ Ended(r) /\ Produced(r)) =>
      req[r].outcome = "return"

\* What a provider did in the call of frame f, from what f keeps of it.
OutcomeOf(f, provider, response, error) ==
  IF InSeq(<<provider, "return">>, f.log) THEN Returns(response)
  ELSE Raises(error)

\* The call of frame f run alone, as one step, on its own arguments and on
\* what the providers answered to it: the frame the strategies leave.
Alone(f) ==
  IF f.code \in SqlCodes
  THEN ReturnSql(Called(f.op, f.code, f.analysis_id, f.user_id))
  ELSE OpenAIEnded([Called(f.op, f.code, f.analysis_id, f.user_id)
                      EXCEPT !.log = IF ai = "none" THEN <<>>
                                     ELSE << <<"OpenAI", "call">> >>],
                   OutcomeOf(f, "OpenAI", f.openai_response, f.openai_error),
                   OutcomeOf(f, "Gemini", f.gemini_response, f.gemini_error))

\* The results a frame of the strategies comes to, when it is returned.
ResultsOf(f) ==
  IF f.outcome = "return" THEN f.ret.results
  ELSE Stamped(f.analysis_result, f.model_used)

Compared == << <<"tables">>, <<"relationships">>, <<"model_used">> >>

\* The call that ended as frame f ended like the call that ran alone.
EndsLike(f, alone) ==
  /\ f.outcome = "return" =>
       /\ alone.outcome # "raise"
       /\ \A n \in 1..3 :
            Field(f.ret.results, Compared[n])
              = Field(ResultsOf(alone), Compared[n])
  /\ alone.outcome = "raise" =>
       /\ f.outcome = "raise"
       /\ f.exc = ErrorAnalyzing(alone.exc)

IsFallback(result) ==
  /\ \A n \in 1..6 : Field(result, CanonicalLists[n]) = PyList(<<>>)
  /\ TagOf(Field(result, SummaryKey)) = "str"
  /\ Len(ValOf(Field(result, SummaryKey))) >= 7
  /\ SubSeq(ValOf(Field(result, SummaryKey)), 1, 7)
       = ValOf(Field(ErrorResult(<<>>), SummaryKey))

\* C16: when the response of OpenAI is so unusable that the normalizer
\* falls back to its terminal result, the OpenAI attempt counts as failed:
\* Gemini is attempted, and the fallback result of OpenAI is not returned.
C16_FallbackCountsAsFailure ==
  \A r \in Reqs :
    (/\ IsAnalyzeCode(r) /\ Ended(r) /\ Logs(r, "OpenAI", "return")
     /\ IsFallback(NormalizedResponse[req[r].openai_response]))
    => /\ Logs(r, "Gemini", "call")
       /\ ~(/\ req[r].outcome = "return"
             /\ Field(req[r].ret.results, <<"model_used">>) = PyStr(OpenAITag))

\* Does request r end a call of analyze_code in this step?
EndsNow(r) ==
  req[r].pc # "done" /\ req'[r].pc = "done" /\ req'[r].op = "analyze_code"

\* code[:1000]
First1000(code) == SubSeq(code, 1, IF Len(code) < 1000 THEN Len(code) ELSE 1000)

\* Is `row` the record of the call that ended as frame f?
RecordsCall(row, f) ==
  /\ row.user_id = f.user_id
  /\ row.query_content = First1000(f.code)
  /\ row.execution_status = (IF f.outcome = "raise" THEN "failed"
                             ELSE "success")
  /\ IF f.outcome = "raise" THEN f.exc = ErrorAnalyzing(row.error_message)
     ELSE row.error_message = None

\* C23: the step in which a call of analyze_code with a user_id ends, by a
\* return or a raise, adds exactly one QueryExecution, with 'failed' and the
\* error message if and only if the call raises, else 'success', and with
\* the first 1000 characters of the code; a call without user_id adds none.
C23_OneExecutionPerCall ==
  [][\A r \in Reqs :
       EndsNow(r) =>
         IF req'[r].user_id = 0 THEN executions' = executions
         ELSE /\ Len(executions') = Len(executions) + 1
              /\ SubSeq(executions', 1, Len(executions)) = executions
              /\ RecordsCall(executions'[Len(executions')], req'[r])]_vars

----------------------------------------------------------------------------
(* Claims about _parse_ai_response, under SpecNorm.                        *)

Normalized == normPc = "return"

Reparsed == normPc = "reparsed"

\* C11: for every result r of _parse_ai_response, the serialization of r is
\* normalized on the strict path to a result equal to r field for field,
\* whatever strings r holds, strings with three backticks included.
C11_RoundTrip ==
  Reparsed =>
    /\ json_loads(CleanedUp(json_dumps(normOut))).ok
    /\ \A n \in 1..7 :
         Field(normAgain, CanonicalKeys[n]) = Field(normOut, CanonicalKeys[n])

\* C9: for every input text the result holds the seven canonical keys, each
\* of the six list fields is a sequence and documentation_summary is a
\* string, also when the text is a JSON object that omits keys or gives
\* them a null or non-list value.
C9_CanonicalFieldsWellTyped ==
  Normalized =>
    /\ \A n \in 1..7 : HasKey(ValOf(normOut), CanonicalKeys[n])
    /\ \A n \in 1..6 : TagOf(Field(normOut, CanonicalLists[n])) = "list"
    /\ TagOf(Field(normOut, SummaryKey)) = "str"

FenceTags == {<<"json">>, <<>>}

\* C12: for every JSON object text j, j in one pair of fences, with or
\* without the json tag, is normalized to the same result as j alone: the
\* seven canonical fields taken from j by key, the empty default for each
\* missing key.
C12_FencedLikeBare ==
  Normalized =>
    \A j \in JsonObjects \cup JsonEscaped :
      /\ (\E tag \in FenceTags : normIn = Fenced(tag, j))
           => normOut = parse_ai_response(j)
      /\ (normIn = j \/ \E tag \in FenceTags : normIn = Fenced(tag, j))
           => normOut = StrictResult(json_loads(j).val)

Heuristics ==
  <<table_pattern, code_pattern>> \o rel_patterns \o summary_patterns

\* Does one of the table, relationship, code-snippet or summary patterns
\* match somewhere in the text?
MatchesHeuristics(text) ==
  \E n \in 1..Len(Heuristics) : ReSearch(Heuristics[n], text, 1).ok

\* C10: for every text that is no valid JSON and that none of the patterns
\* matches, the result holds six empty lists and a non-empty
\* documentation_summary that describes the error.
C10_ErrorSummaryForUnusableText ==
  (/\ Normalized /\ normIn # None
   /\ ~json_loads(normIn).ok /\ ~MatchesHeuristics(normIn))
  => /\ \A n \in 1..6 : Field(normOut, CanonicalLists[n]) = PyList(<<>>)
     /\ TagOf(Field(normOut, SummaryKey)) = "str"
     /\ ValOf(Field(normOut, SummaryKey)) # <<>>

\* The fenced code blocks of a text, and the language each declares.
FencedBlocks(text) == ReFindIter(code_pattern, text, 1)

DeclaredLanguage(m, text) ==
  IF GroupOf(m, text, 1) = None THEN <<"python">> ELSE GroupOf(m, text, 1)

SnippetsOf(result) == ValOf(Field(result, <<"code_snippets">>))

\* C21: when the text is no valid JSON, code_snippets of the result holds
\* one entry for every fenced code block of the text that was passed, in
\* order, with the tag the fence declares as language, or "python" when it
\* declares none.
C21_SnippetPerFencedBlock ==
  (Normalized /\ normIn # None /\ ~json_loads(CleanedUp(normIn)).ok)
  => /\ Len(SnippetsOf(normOut)) = Len(FencedBlocks(normIn))
     /\ \A k \in 1..Len(SnippetsOf(normOut)) :
          ValOf(Field(SnippetsOf(normOut)[k], <<"language">>))
            = DeclaredLanguage(FencedBlocks(normIn)[k], normIn)

RelationshipKeys ==
  {<<"from_table">>, <<"from_field">>, <<"to_table">>, <<"to_field">>,
   <<"type">>}

\* The tables and columns that create_data_dictionary looks up.
LookupTables == {PyStr(<<"posts">>), PyStr(<<"users">>), PyStr(<<"author">>)}

LookupColumns == {PyStr(<<"user_id">>), PyStr(<<"id">>)}

\* C22: every relationship of a result of the regex pass carries the keys
\* from_table, from_field, to_table, to_field and type, and the lookup of
\* _get_ai_relationships in the result ends without error for every table
\* and column.
C22_RelationshipsCarryAllKeys ==
  (Normalized /\ normIn # None /\ ~json_loads(CleanedUp(normIn)).ok)
  => /\ \A k \in 1..Len(ValOf(Field(normOut, <<"relationships">>))) :
          \A key \in RelationshipKeys :
            HasKey(ValOf(ValOf(Field(normOut, <<"relationships">>))[k]), key)
     /\ \A table \in LookupTables, column \in LookupColumns :
          ~get_ai_relationships(normOut, table, column).raised

----------------------------------------------------------------------------
(* Claims about the review workflow, under SpecReview.                     *)

Verdicts == {"approved", "rejected"}

Stored == 1..Len(analyses)

\* The commits of the history on analysis a, in their order.
CommitsOn(a) == SelectSeq(trail, LAMBDA c : c.analysis_id = a)

OpsOn(a) == {CommitsOn(a)[k].op : k \in 1..Len(CommitsOn(a))}

\* C26: whatever analyze_code, submit_for_review and submit_review have
\* done to an analysis, its status is approved or rejected if and only if
\* its review_status is reviewed.
C26_VerdictIffReviewed ==
  \A a \in Stored :
    analyses[a].status \in Verdicts <=> analyses[a].review_status = "reviewed"

\* An analysis that the three operations have all changed and that holds
\* a verdict.
C26_Witness ==
  \E a \in Stored :
    /\ analyses[a].status \in Verdicts
    /\ analyses[a].review_status = "reviewed"
    /\ {"store", "submit_for_review", "submit_review"} \subseteq OpsOn(a)

\* The positions of the submit_for_review commits among the first n commits
\* on analysis a.
Assignments(a, n) ==
  {i \in 1..n : CommitsOn(a)[i].op = "submit_for_review"}

Max(set) == CHOOSE m \in set : \A k \in set : k <= m

\* The last commit on analysis a is the review of the reviewer that the
\* last submit_for_review before it assigned.
ReviewedByAssigned(a) ==
  /\ CommitsOn(a) # <<>>
  /\ CommitsOn(a)[Len(CommitsOn(a))].op = "submit_review"
  /\ CommitsOn(a)[Len(CommitsOn(a))].reviewer_id \in ReviewerIds
  /\ Assignments(a, Len(CommitsOn(a))) # {}
  /\ CommitsOn(a)[Max(Assignments(a, Len(CommitsOn(a))))].reviewer_id
       = CommitsOn(a)[Len(CommitsOn(a))].reviewer_id

\* This step gives analysis a a verdict, or another verdict.
TakesVerdict(a) ==
  /\ analyses'[a].status \in Verdicts
  /\ a \in Stored => analyses'[a] # analyses[a]

\* This step is a call of submit_review for analysis a that returns, by a
\* reviewer that is an integer and that the analysis is assigned to.
ReviewsNow(a) ==
  /\ review'.n = review.n + 1
  /\ review'.op = "submit_review"
  /\ review'.outcome = "return"
  /\ review'.analysis_id = a
  /\ review'.reviewer_id \in ReviewerIds
  /\ a \in Stored
  /\ analyses[a].reviewer_id = review'.reviewer_id

\* C27: an analysis takes the status approved or rejected only in a call of
\* submit_review with an integer reviewer_id, and an analysis that holds
\* one was submitted for review before, to the reviewer of that call; an
\* analysis that was never submitted for review holds none.
C27_VerdictOnlyByAssignedReviewer ==
  /\ [](\A a \in Stored :
          analyses[a].status \in Verdicts => ReviewedByAssigned(a))
  /\ [][\A a \in 1..Len(analyses') : TakesVerdict(a) => ReviewsNow(a)]_vars

\* An analysis that was submitted to one reviewer, then to the other, and
\* that the other has reviewed.
C27_Witness ==
  \E a \in Stored :
    /\ analyses[a].status \in Verdicts
    /\ Len(CommitsOn(a)) = 3
    /\ CommitsOn(a)[1].op = "submit_for_review"
    /\ CommitsOn(a)[2].op = "submit_for_review"
    /\ CommitsOn(a)[1].reviewer_id # CommitsOn(a)[2].reviewer_id
    /\ CommitsOn(a)[3] = Commit("submit_review", a, analyses[a].reviewer_id)

\* This step is a call of the review operation op.
ReviewCallNow(op) == review'.n = review.n + 1 /\ review'.op = op

\* This step is a call that finds no analysis to work on: submit_review for
\* an analysis that is not stored or is assigned to another reviewer or to
\* none, submit_for_review for an analysis that is not stored.
ReviewRefusedNow ==
  \/ /\ ReviewCallNow("submit_review")
     /\ ~AssignedTo(analyses, review'.analysis_id, review'.reviewer_id)
  \/ /\ ReviewCallNow("submit_for_review")
     /\ review'.analysis_id \notin Stored

\* This step ends a call of analyze_code by request r whose providers gave
\* a result to store in an analysis that is not stored.
StoreRefusedNow(r) ==
  /\ EndsNow(r)
  /\ req'[r].op = "analyze_code"
  /\ req'[r].analysis_result # PyNone
  /\ req'[r].given_id # 0
  /\ req'[r].given_id \notin Stored

\* C28: submit_review for an analysis that does not exist or that is not
\* assigned to the reviewer of the call, and submit_for_review and
\* store_analysis_results for an analysis that does not exist, raise and
\* leave every stored analysis as it was.
C28_RefusedCallsChangeNothing ==
  [][/\ ReviewRefusedNow
        => review'.outcome = "raise" /\ analyses' = analyses
     /\ \A r \in Reqs :
          StoreRefusedNow(r)
            => req'[r].outcome = "raise" /\ analyses' = analyses]_vars

\* A reviewer is refused the analysis that another reviewer has given its
\* verdict, and analyze_code was refused an analysis that is not stored.
C28_Witness ==
  /\ review.op = "submit_review"
  /\ review.outcome = "raise"
  /\ review.exc = ErrorSubmittingReview(
                    NotAssigned(review.analysis_id, review.reviewer_id))
  /\ review.analysis_id \in Stored
  /\ analyses[review.analysis_id].status \in Verdicts
  /\ analyses[review.analysis_id].reviewer_id \in
       ReviewerIds \ {review.reviewer_id}
  /\ \E r \in Reqs :
       /\ req[r].pc = "done"
       /\ req[r].analysis_result # PyNone
       /\ req[r].given_id \notin Stored
       /\ req[r].exc = ErrorAnalyzing(ErrorStoring(NotFound(req[r].given_id)))

\* This step ends a call of analyze_code by request r for analysis a that
\* returns the result of a provider.
StoresNow(r, a) ==
  /\ EndsNow(r)
  /\ req'[r].outcome = "return"
  /\ req'[r].model_used # SqlParserTag
  /\ req'[r].given_id = a

\* This step is a call of submit_review by the reviewer that analysis a is
\* assigned to.
AssignedReviewsNow(a) ==
  /\ ReviewCallNow("submit_review")
  /\ review'.analysis_id = a
  /\ AssignedTo(analyses, a, review'.reviewer_id)

\* C29: a call of analyze_code for an approved or rejected analysis that
\* returns the result of a provider leaves the analysis with status
\* pending_review, review_status pending and the reviewer_id it had; and a
\* call of submit_review by the reviewer of an analysis fails for no reason
\* but the database, whatever the analysis went through since it was
\* submitted to that reviewer.
C29_StoreReopensForSameReviewer ==
  [][\A a \in Stored :
       /\ (analyses[a].status \in Verdicts /\ \E r \in Reqs : StoresNow(r, a))
          => /\ analyses'[a].status = "pending_review"
             /\ analyses'[a].review_status = "pending"
             /\ analyses'[a].reviewer_id = analyses[a].reviewer_id
             /\ analyses'[a].reviewer_id \in ReviewerIds
       /\ AssignedReviewsNow(a)
          => \/ /\ review'.outcome = "return"
                /\ analyses'[a].status \in Verdicts
                /\ analyses'[a].review_status = "reviewed"
             \/ /\ review'.outcome = "raise"
                /\ review'.exc = ErrorSubmittingReview(DbError)
                /\ analyses' = analyses]_vars

\* An analysis that was submitted, given a verdict, analysed again and
\* given a verdict again by the same reviewer, with no second submission.
C29_Witness ==
  \E a \in Stored :
    /\ analyses[a].status \in Verdicts
    /\ [k \in 1..Len(CommitsOn(a)) |-> CommitsOn(a)[k].op]
         = <<"submit_for_review", "submit_review", "store", "submit_review">>
    /\ CommitsOn(a)[2].reviewer_id = CommitsOn(a)[1].reviewer_id
    /\ CommitsOn(a)[4].reviewer_id = CommitsOn(a)[1].reviewer_id
    /\ analyses[a].analysis_results # PyNone

----------------------------------------------------------------------------
(* Claims about the deterministic path of analyze_code, under Spec.        *)

\* This step ends a call of analyze_code by request r on SQL that parse_sql
\* finds tables in.
EndsSqlNow(r) == EndsNow(r) /\ req'[r].code \in SqlCodes

\* This step ends a call of analyze_code by request r that returns the
\* result of a provider, stored in the analysis it returns the id of.
PersistsNow(r) ==
  /\ EndsNow(r)
  /\ req'[r].code \in OtherCodes
  /\ req'[r].outcome = "return"
  /\ req'[r].model_used \in {OpenAITag, GeminiTag}
  /\ req'[r].ret.analysis_id \in 1..Len(analyses')
  /\ analyses'[req'[r].ret.analysis_id].analysis_results
       = req'[r].ret.results
  /\ \A a \in Stored \ {req'[r].ret.analysis_id} :
       analyses'[a] = analyses[a]

\* C30: a call of analyze_code that takes the deterministic path returns
\* the result of the SQL parser with the analysis_id it was given, none
\* when none was given, and leaves the table analyses as it was, whatever
\* analysis_id and user_id are; the table changes only when a call stores
\* the result of a provider.
C30_DeterministicPathPersistsNothing ==
  [][/\ \A r \in Reqs :
          EndsSqlNow(r)
            => /\ analyses' = analyses
               /\ req'[r].outcome = "return"
               /\ req'[r].model_used = SqlParserTag
               /\ req'[r].ret.analysis_id = req'[r].given_id
               /\ req'[r].ret.results = SqlResults(ParsedSql[req'[r].code])
     /\ analyses' # analyses => \E r \in Reqs : PersistsNow(r)]_vars

\* Two calls on SQL have returned, one for a user without an analysis_id,
\* one with the id of an analysis that is not stored, and the table holds
\* what it held at the start.
C30_Witness ==
  /\ analyses = <<NewAnalysis(1, PyNone)>>
  /\ \E r \in Reqs, q \in Reqs :
       /\ req[r].pc = "done" /\ req[q].pc = "done"
       /\ req[r].op = "analyze_code" /\ req[q].op = "analyze_code"
       /\ req[r].code \in SqlCodes /\ req[q].code \in SqlCodes
       /\ req[r].given_id = 0 /\ req[r].user_id # 0
       /\ req[r].ret.analysis_id = 0
       /\ req[q].given_id \notin Stored \cup {0}
       /\ req[q].ret.analysis_id = req[q].given_id

====
